---------------------------- MODULE Spec2Model ----------------------------
(***************************************************************************)
(* The streaming core of netdata (src/streaming/rrdpush.c), the signals    *)
(* of the daemon (src/daemon/signals.c) and the mount points of            *)
(* diskspace.plugin (src/collectors/diskspace.plugin/plugin_diskspace.c).  *)
(*                                                                         *)
(* Spec      the child side: collector threads calling                     *)
(*           rrdset_push_metric_initialize / rrdset_push_metrics_finished  *)
(*           and rrdset_push_chart_definition_now on the charts of one     *)
(*           host, the sender spawn gate, and one connection to a parent.  *)
(* SpecSpawn the spawn gate alone, with a sender thread that may exit.     *)
(* SpecRecv  the parent side: web threads in                               *)
(*           rrdpush_receiver_thread_spawn, the rate limiter, the          *)
(*           duplicate detection and the hand-off to receiver workers.     *)
(* SpecValid the validation of one inbound request, over all inputs.       *)
(* SpecCaps  one capability handshake, over all advertisements and masks.  *)
(* SpecParse the version parameters of one query string.                   *)
(* SpecDestinations  the calls of connect_to_one_of_destinations and of    *)
(*           rrdpush_reset_destinations_postpone_time.                     *)
(* SpecPoints  the v2 framing of the points of one chart's collection.     *)
(* SpecStop  callers of rrdpush_sender_thread_stop and one sender thread.  *)
(* SpecReconnect  a collector ticking across the loss of the connection.   *)
(* SpecDefinition  one call of rrdpush_send_chart_definition.              *)
(* SpecFields  the "#" fields of one BEGIN_V2 and one SET_V2.              *)
(* SpecSignals  signal_handler and signals_handle on the main thread.      *)
(* SpecDiskspace  the main loop and the slow worker of diskspace.plugin.   *)
(***************************************************************************)
EXTENDS Integers, Sequences, FiniteSets, TLC

\* ------------------------------------------------------------------------
\* Bounds of the model

\* a chart's metadata version is bumped at most this many times
MaxVersion == 1
\* at most this many commits reach the sender buffer
MaxCommits == 3

\* threads of the agent working on the host: the collector of the chart
\* (the data-collection tick), and a thread of another subsystem that asks
\* for the chart's definition to be sent (rrdset_push_chart_definition_now)
Collectors == {1}
Others == {2}
Threads == Collectors \cup Others
\* charts of the host
Charts == {1}

\* ------------------------------------------------------------------------
\* Flags

RRDHOST_FLAG_RRDPUSH_SENDER_SPAWN == "SENDER_SPAWN"
RRDHOST_FLAG_RRDPUSH_SENDER_CONNECTED == "SENDER_CONNECTED"
RRDHOST_FLAG_RRDPUSH_SENDER_READY_4_METRICS == "SENDER_READY_4_METRICS"
RRDHOST_FLAG_RRDPUSH_SENDER_LOGGED_STATUS == "SENDER_LOGGED_STATUS"
RRDHOST_FLAG_RRDPUSH_RECEIVER_DISCONNECTED == "RECEIVER_DISCONNECTED"
RRDHOST_FLAG_GLOBAL_FUNCTIONS_UPDATED == "GLOBAL_FUNCTIONS_UPDATED"

RRDSET_FLAG_UPSTREAM_SEND == "UPSTREAM_SEND"
RRDSET_FLAG_UPSTREAM_IGNORE == "UPSTREAM_IGNORE"
RRDSET_FLAG_SENDER_REPLICATION_IN_PROGRESS == "SENDER_REPLICATION_IN_PROGRESS"
RRDSET_FLAG_SENDER_REPLICATION_FINISHED == "SENDER_REPLICATION_FINISHED"
RRDSET_FLAG_RECEIVER_REPLICATION_FINISHED == "RECEIVER_REPLICATION_FINISHED"
RRDSET_FLAG_ANOMALY_DETECTION == "ANOMALY_DETECTION"

STREAM_CAP_REPLICATION == "REPLICATION"
STREAM_CAP_INTERPOLATED == "INTERPOLATED"

VARIABLES
    \* ---- child side -----------------------------------------------------
    hostFlags,          \* host->flags
    senderThreads,      \* live rrdpush_sender_thread threads of the host
    senderMutex,        \* host->sender->mutex: 0, or the thread holding it
    capabilities,       \* host->sender->capabilities of the connection
    shutdown,           \* host->sender->exit.shutdown
    chartFlags,         \* st->flags, per chart
    version,            \* rrdset_metadata_version(st), per chart
    sentVersion,        \* the version exposed upstream, per chart (-1: none)
    replicatingCharts,  \* the host's count of charts replicating in flight
    sendChartsMatching, \* whether host->rrdpush_send_charts_matching matches
                        \* the id or the name of a (non-anomaly) chart
    mlStreaming,        \* ml_streaming_enabled()
    stream,             \* the records committed to the sender buffer
    commits,            \* number of commits so far
    pc,                 \* each thread's position
    st,                 \* each thread's chart argument (0: none)
    host_flags,         \* each thread's local host_flags
    exposed_upstream,   \* each thread's local exposed_upstream
    rrdset_flags,       \* each thread's local rrdset_flags
    def_version,        \* each thread's local version (definition)
    fn,                 \* the function each thread is in
    wb,                 \* each thread's buffer of uncommitted records
    \* ---- parent side ----------------------------------------------------
    now,                \* the clock, in seconds
    serviceRunning,     \* service_running(ABILITY_STREAMING_CONNECTIONS)
    streamingRate,      \* web_client_streaming_rate_t
    last_stream_accepted_t, \* the static of the rate limiter
    hostX,              \* the mirrored host of the child: "none", "live"
                        \* or "archived"
    receiver,           \* host->receiver: NoReceiver, or its last_msg_t and
                        \* exit.shutdown
    workers,            \* receiver threads created and not yet attached
    rpc,                \* each web thread's position
    req,                \* the request each web thread is serving
    rnow,               \* each web thread's local now (rate limiter)
    response,           \* the HTTP code each web thread returned (0: none)
    response_data,      \* w->response.data, the body each web thread returned
    takeover,           \* whether the request's socket was taken over
    thread_created,     \* whether a receiver thread was created for it
    stop_signalled,     \* whether it called stop_streaming_receiver
    \* ---- one handshake, one query string ---------------------------------
    advertised,         \* the number the peer sent as its version
    parentDisabled,     \* globally_disabled_capabilities of the parent
    childHost,          \* what the child's stream_our_capabilities reads
    handshake,          \* how far the handshake or the parsing has come
    rpt_capabilities,   \* rpt->capabilities
    reply,              \* the number the parent answered with
    query,              \* the parameters of the decoded query string
    parsed,             \* how many of them the parsing loop has consumed
    \* ---- the destinations of one sender ---------------------------------
    destinations,       \* host->destinations, in the order of the list
    postpone_reconnection_until, \* d->postpone_reconnection_until of each
    since,              \* d->since of each
    attempts,           \* d->attempts of each
    realtime,           \* now_realtime_sec()
    probed,             \* the destinations the last call tried, in order
    connected,          \* the destination the last call connected to, or 0
    chosen,             \* *destination of the caller, or 0
    accepting,          \* the destinations that accepted during the last call
    \* ---- one chart's buffer of one collection (RRDSET_STREAM_BUFFER) -----
    rsb,                \* wb, last_point_end_time_s, begin_v2_added
    points,             \* the point_end_time_s of the points written so far
    sent,               \* what sender_commit took over
    \* ---- the calls of rrdpush_sender_thread_stop -------------------------
    tid,                \* host->sender->tid
    exit_reason,        \* host->sender->exit.reason
    stopper,            \* each caller's position, arguments and sleeps
    \* ---- one call of rrdpush_send_chart_definition -----------------------
    defined,            \* the chart: its labels, dimensions, functions, ...
    negotiated,         \* the capabilities of host->sender at the call
    definition,         \* the records the call wrote to wb, or << >>
    \* ---- the fields of one BEGIN_V2 and one SET_V2 -----------------------
    point,              \* the point: its end time, the wall clock, its values
    fields,             \* the wall-clock and value fields written for it
    \* ---- the signals of the daemon --------------------------------------
    count,              \* signals_waiting[i].count
    handle_pc,          \* where signals_handle is
    handle_i,           \* the i of its for loop
    handle_found,              \* its handle_found
    last_action,        \* the action it executed last
    \* ---- the mount points of diskspace.plugin ---------------------------
    cleanup_mount_points,     \* "remove charts of unmounted disks"
    mounted,                  \* the mount points of disk_mountinfo_root
    dict_mountpoints,         \* the mount_point_metadata of each mount point
    obsolete,                 \* the mount points whose charts are obsolete
    slow_mountinfo_tmp_root,  \* the list the main loop leaves to the worker
    slow_mountinfo_root,      \* the list of the slow worker
    main_pc,                  \* where the main loop is
    slow_pc                   \* where the slow worker is

hostVars == <<hostFlags, senderThreads, capabilities, shutdown>>
chartVars == <<chartFlags, version, sentVersion, replicatingCharts>>
configVars == <<sendChartsMatching, mlStreaming>>
bufferVars == <<senderMutex, stream, commits>>
localVars == <<st, host_flags, exposed_upstream, rrdset_flags, def_version, fn, wb>>
childVars == <<hostVars, chartVars, configVars, bufferVars, pc, localVars>>

limiterVars == <<streamingRate, last_stream_accepted_t>>
mirrorVars == <<hostX, receiver, workers>>
webVars == <<rpc, req, rnow, response, response_data, takeover, thread_created,
             stop_signalled>>
parentVars == <<now, serviceRunning, limiterVars, mirrorVars, webVars>>

handshakeVars == <<advertised, parentDisabled, childHost, handshake,
                   rpt_capabilities, reply, query, parsed>>
destVars == <<destinations, postpone_reconnection_until, since, attempts,
              realtime, probed, connected, chosen, accepting>>
pointVars == <<rsb, points, sent>>
stopVars == <<tid, exit_reason, stopper>>
definitionVars == <<defined, negotiated, definition>>
fieldVars == <<point, fields>>
signalVars == <<count, handle_pc, handle_i, handle_found, last_action>>
diskspaceVars == <<cleanup_mount_points, mounted, dict_mountpoints, obsolete,
                   slow_mountinfo_tmp_root, slow_mountinfo_root, main_pc,
                   slow_pc>>
extraVars == <<definitionVars, fieldVars, signalVars, diskspaceVars>>
unitVars == <<handshakeVars, destVars, pointVars, stopVars, extraVars>>
\* what the actions of one of them leave alone
besidesHandshake ==
    <<childVars, parentVars, destVars, pointVars, stopVars, extraVars>>
besidesDestinations ==
    <<childVars, parentVars, handshakeVars, pointVars, stopVars, extraVars>>
besidesPoints ==
    <<childVars, parentVars, handshakeVars, destVars, stopVars, extraVars>>
besidesStop ==
    <<capabilities, chartVars, configVars, bufferVars, pc, localVars,
      parentVars, handshakeVars, destVars, pointVars, extraVars>>
firstVars ==
    <<childVars, parentVars, handshakeVars, destVars, pointVars, stopVars>>
besidesDefinition == <<firstVars, fieldVars, signalVars, diskspaceVars>>
besidesFields == <<firstVars, definitionVars, signalVars, diskspaceVars>>
besidesSignals == <<firstVars, definitionVars, fieldVars, diskspaceVars>>
besidesDiskspace == <<firstVars, definitionVars, fieldVars, signalVars>>

vars == <<childVars, parentVars, unitVars>>

\* no handshake and no parsing under way
HandshakeQuiet ==
    /\ advertised = 0
    /\ parentDisabled = {}
    /\ childHost = [globally_disabled |-> {}, ml |-> FALSE,
                    disabled_capabilities |-> {}]
    /\ handshake = "none"
    /\ rpt_capabilities = {}
    /\ reply = 0
    /\ query = << >>
    /\ parsed = 0

\* no destination configured
DestinationsQuiet ==
    /\ destinations = << >>
    /\ postpone_reconnection_until = << >>
    /\ since = << >>
    /\ attempts = << >>
    /\ realtime = 0
    /\ probed = << >>
    /\ connected = 0
    /\ chosen = 0
    /\ accepting = {}

\* no collection under way: rsb->wb == NULL
PointsQuiet ==
    /\ rsb = [open |-> FALSE, v2 |-> FALSE, wb |-> << >>,
              last_point_end_time_s |-> 0, begin_v2_added |-> FALSE]
    /\ points = << >>
    /\ sent = << >>

\* nobody stops the sender
StopQuiet ==
    /\ tid = 0
    /\ exit_reason = "none"
    /\ stopper = << >>

\* no chart definition under way
DefinitionQuiet ==
    /\ defined = [labels |-> 0, dimensions |-> 0, functions |-> 0,
                  variables |-> 0]
    /\ negotiated = {}
    /\ definition = << >>

\* no point being written
FieldsQuiet ==
    /\ point = [point_end_time_s |-> 0, wall_clock_time |-> 0,
                last_collected_value |-> 0, n |-> [whole |-> 0, half |-> FALSE]]
    /\ fields = << >>

\* the daemon before signals_handle, no signal received
SignalsQuiet ==
    /\ count = [i \in 1..9 |-> 0]
    /\ handle_pc = "start"
    /\ handle_i = 1
    /\ handle_found = 0
    /\ last_action = "none"

\* the mount points diskspace.plugin may see
MountPoints == {"/data", "/backup"}

\* dictionary_get(dict_mountpoints, mount_point) == NULL
NoEntry == [slow |-> 0, updated |-> 0, collected |-> 0, st_space |-> "NULL",
            known |-> FALSE]

\* diskspace.plugin before its first iteration
DiskspaceQuiet ==
    /\ cleanup_mount_points = 1
    /\ mounted = {}
    /\ dict_mountpoints = [m \in MountPoints |-> NoEntry]
    /\ obsolete = {}
    /\ slow_mountinfo_tmp_root = {}
    /\ slow_mountinfo_root = {}
    /\ main_pc = "stats"
    /\ slow_pc = "swap"

ExtraQuiet == DefinitionQuiet /\ FieldsQuiet /\ SignalsQuiet /\ DiskspaceQuiet

\* all of them at rest, for the specifications of the child and the parent
UnitQuiet ==
    /\ HandshakeQuiet /\ DestinationsQuiet /\ PointsQuiet /\ StopQuiet
    /\ ExtraQuiet

\* ------------------------------------------------------------------------
\* Records of the stream: <<verb, chart>>; chart 0 is the host

Rec(verb, c) == <<verb, c>>

ValueVerbs == {"BEGIN", "SET", "END", "BEGIN_V2", "SET_V2", "END_V2"}

\* should_send_chart_matching without the test of line 166: the chart is
\* classified on every call
should_send_chart_matching_Reclassify(c, flags) ==
    IF RRDSET_FLAG_RECEIVER_REPLICATION_FINISHED \notin flags
    THEN [set |-> {}, ret |-> FALSE]
    ELSE LET f == IF RRDSET_FLAG_ANOMALY_DETECTION \in flags
                  THEN (IF mlStreaming THEN RRDSET_FLAG_UPSTREAM_SEND
                                       ELSE RRDSET_FLAG_UPSTREAM_IGNORE)
                  ELSE (IF sendChartsMatching[c] THEN RRDSET_FLAG_UPSTREAM_SEND
                                                 ELSE RRDSET_FLAG_UPSTREAM_IGNORE)
         IN [set |-> {f},
             ret |-> RRDSET_FLAG_UPSTREAM_SEND \in (chartFlags[c] \cup {f})]

\* should_send_chart_matching without the test of line 163: a chart is
\* classified whether or not its receiver finished the replication
should_send_chart_matching_Unreplicated(c, flags) ==
    IF flags \cap {RRDSET_FLAG_UPSTREAM_SEND, RRDSET_FLAG_UPSTREAM_IGNORE} = {}
    THEN LET f == IF RRDSET_FLAG_ANOMALY_DETECTION \in flags
                  THEN (IF mlStreaming THEN RRDSET_FLAG_UPSTREAM_SEND
                                       ELSE RRDSET_FLAG_UPSTREAM_IGNORE)
                  ELSE (IF sendChartsMatching[c] THEN RRDSET_FLAG_UPSTREAM_SEND
                                                 ELSE RRDSET_FLAG_UPSTREAM_IGNORE)
         IN [set |-> {f},
             ret |-> RRDSET_FLAG_UPSTREAM_SEND \in (chartFlags[c] \cup {f})]
    ELSE [set |-> {}, ret |-> RRDSET_FLAG_UPSTREAM_SEND \in flags]

\* ------------------------------------------------------------------------
\* should_send_chart_matching(st, flags): the flag it sets on st (if any) and
\* what it returns. flags is the caller's snapshot; after setting a flag the
\* function reads UPSTREAM_SEND | UPSTREAM_IGNORE again from the chart.
should_send_chart_matching(c, flags) ==
    IF RRDSET_FLAG_RECEIVER_REPLICATION_FINISHED \notin flags
    THEN [set |-> {}, ret |-> FALSE]
    ELSE IF flags \cap {RRDSET_FLAG_UPSTREAM_SEND, RRDSET_FLAG_UPSTREAM_IGNORE} = {}
    THEN LET f == IF RRDSET_FLAG_ANOMALY_DETECTION \in flags
                  THEN (IF mlStreaming THEN RRDSET_FLAG_UPSTREAM_SEND
                                       ELSE RRDSET_FLAG_UPSTREAM_IGNORE)
                  ELSE (IF sendChartsMatching[c] THEN RRDSET_FLAG_UPSTREAM_SEND
                                                 ELSE RRDSET_FLAG_UPSTREAM_IGNORE)
         IN [set |-> {f},
             ret |-> RRDSET_FLAG_UPSTREAM_SEND \in (chartFlags[c] \cup {f})]
    ELSE [set |-> {}, ret |-> RRDSET_FLAG_UPSTREAM_SEND \in flags]

\* rrdset_check_upstream_exposed(st)
rrdset_check_upstream_exposed(c) == sentVersion[c] = version[c]

\* rrdhost_can_send_definitions_to_parent(host)
rrdhost_can_send_definitions_to_parent ==
    RRDHOST_FLAG_RRDPUSH_SENDER_CONNECTED \in hostFlags

\* stream_has_capability(host->sender, cap)
stream_has_capability(cap) == cap \in capabilities

\* ------------------------------------------------------------------------
\* Initial state: a host with charts that were never sent, no sender thread

ChildInit ==
    /\ hostFlags = {}
    /\ senderThreads = 0
    /\ capabilities = {}
    /\ shutdown = FALSE
    /\ senderMutex = 0
    /\ chartFlags \in
         [Charts -> SUBSET {RRDSET_FLAG_SENDER_REPLICATION_FINISHED,
                           RRDSET_FLAG_RECEIVER_REPLICATION_FINISHED,
                           RRDSET_FLAG_ANOMALY_DETECTION}]
    /\ version = [c \in Charts |-> 0]
    /\ sentVersion = [c \in Charts |-> -1]
    /\ replicatingCharts = 0
    /\ sendChartsMatching \in [Charts -> BOOLEAN]
    /\ mlStreaming \in BOOLEAN
    /\ stream = << >>
    /\ commits = 0
    /\ pc = [t \in Threads |-> "idle"]
    /\ st = [t \in Threads |-> 0]
    /\ host_flags = [t \in Threads |-> {}]
    /\ exposed_upstream = [t \in Threads |-> FALSE]
    /\ rrdset_flags = [t \in Threads |-> {}]
    /\ def_version = [t \in Threads |-> 0]
    /\ fn = [t \in Threads |-> "none"]
    /\ wb = [t \in Threads |-> << >>]

\* rrdpush_sender_thread_spawn without the test of line 858
rrdpush_sender_thread_spawn_Ungated(created) ==
    IF created
    THEN [flags |-> hostFlags \cup {RRDHOST_FLAG_RRDPUSH_SENDER_SPAWN},
          threads |-> senderThreads + 1]
    ELSE [flags |-> hostFlags, threads |-> senderThreads]

\* ------------------------------------------------------------------------
\* rrdpush_sender_thread_spawn(host), under sender_lock: the host flags and
\* the number of sender threads it leaves. created: netdata_thread_create
\* succeeded.
rrdpush_sender_thread_spawn(created) ==
    IF RRDHOST_FLAG_RRDPUSH_SENDER_SPAWN \notin hostFlags /\ created
    THEN [flags |-> hostFlags \cup {RRDHOST_FLAG_RRDPUSH_SENDER_SPAWN},
          threads |-> senderThreads + 1]
    ELSE [flags |-> hostFlags, threads |-> senderThreads]

\* the flags after "if(!(host_flags & LOGGED_STATUS)) rrdhost_flag_set(...)"
LogNotReady(flags, snapshot) ==
    IF RRDHOST_FLAG_RRDPUSH_SENDER_LOGGED_STATUS \notin snapshot
    THEN flags \cup {RRDHOST_FLAG_RRDPUSH_SENDER_LOGGED_STATUS}
    ELSE flags

Return(t) ==
    /\ pc' = [pc EXCEPT ![t] = "idle"]
    /\ st' = [st EXCEPT ![t] = 0]
    /\ host_flags' = [host_flags EXCEPT ![t] = {}]
    /\ exposed_upstream' = [exposed_upstream EXCEPT ![t] = FALSE]
    /\ rrdset_flags' = [rrdset_flags EXCEPT ![t] = {}]
    /\ def_version' = [def_version EXCEPT ![t] = 0]
    /\ fn' = [fn EXCEPT ![t] = "none"]
    /\ wb' = [wb EXCEPT ![t] = << >>]

Goto(t, label) ==
    /\ pc' = [pc EXCEPT ![t] = label]

\* a not-ready tick that always goes to spawn the sender
spawn_wanted_Always(flags) == TRUE

\* line 528: the not-ready tick goes to spawn the sender
spawn_wanted(flags) ==
    flags \cap {RRDHOST_FLAG_RRDPUSH_SENDER_SPAWN,
                RRDHOST_FLAG_RRDPUSH_RECEIVER_DISCONNECTED} = {}

\* rrdset_push_metric_initialize(st, wall_clock_time), entry: the atomic load
\* of host->flags and the branch on SENDER_READY_4_METRICS
MetricInitialize(t, c) ==
    /\ pc[t] = "idle"
    /\ LET ready == RRDHOST_FLAG_RRDPUSH_SENDER_READY_4_METRICS \in hostFlags
           gate == spawn_wanted(hostFlags)
       IN  IF ~ready /\ gate
           THEN \* calls rrdpush_sender_thread_spawn(host)
                /\ Goto(t, "spawn")
                /\ st' = [st EXCEPT ![t] = c]
                /\ host_flags' = [host_flags EXCEPT ![t] = hostFlags]
                /\ fn' = [fn EXCEPT ![t] = "metric_initialize"]
                /\ UNCHANGED <<hostFlags, exposed_upstream, rrdset_flags,
                               def_version, wb>>
           ELSE IF ~ready
           THEN \* not ready, no spawn: log once and return no buffer
                /\ hostFlags' = LogNotReady(hostFlags, hostFlags)
                /\ UNCHANGED <<pc, localVars>>
           ELSE /\ hostFlags' = hostFlags \ {RRDHOST_FLAG_RRDPUSH_SENDER_LOGGED_STATUS}
                /\ Goto(t, IF RRDHOST_FLAG_GLOBAL_FUNCTIONS_UPDATED \in hostFlags
                           THEN "functions" ELSE "exposed")
                /\ st' = [st EXCEPT ![t] = c]
                /\ fn' = [fn EXCEPT ![t] = "metric_initialize"]
                /\ UNCHANGED <<host_flags, exposed_upstream, rrdset_flags,
                               def_version, wb>>
    /\ UNCHANGED <<senderThreads, capabilities, shutdown, chartVars, configVars,
                   bufferVars>>
    /\ UNCHANGED <<parentVars, unitVars>>

\* the call of rrdpush_sender_thread_spawn from the not-ready branch, then the
\* rest of the branch: log once, return no buffer
SenderThreadSpawn(t) ==
    /\ pc[t] = "spawn"
    /\ senderMutex = 0
    /\ \E created \in BOOLEAN :
         LET r == rrdpush_sender_thread_spawn(created)
         IN /\ senderThreads' = r.threads
            /\ hostFlags' = LogNotReady(r.flags, host_flags[t])
    /\ Return(t)
    /\ UNCHANGED <<capabilities, shutdown, chartVars, configVars, bufferVars>>
    /\ UNCHANGED <<parentVars, unitVars>>

\* lines 546-550: the global functions are exposed in a commit of their own
GlobalFunctions(t) ==
    /\ pc[t] = "functions"
    /\ senderMutex = 0
    /\ commits < MaxCommits
    /\ stream' = Append(stream, Rec("FUNCTION", 0))
    /\ commits' = commits + 1
    /\ hostFlags' = hostFlags \ {RRDHOST_FLAG_GLOBAL_FUNCTIONS_UPDATED}
    /\ Goto(t, "exposed")
    /\ UNCHANGED <<senderThreads, capabilities, shutdown, chartVars, configVars,
                   senderMutex, localVars>>
    /\ UNCHANGED <<parentVars, unitVars>>

\* line 552: exposed_upstream = rrdset_check_upstream_exposed(st)
CheckExposed(t) ==
    /\ pc[t] = "exposed"
    /\ exposed_upstream' = [exposed_upstream EXCEPT ![t] =
                              rrdset_check_upstream_exposed(st[t])]
    /\ Goto(t, "flags")
    /\ UNCHANGED <<hostVars, chartVars, configVars, bufferVars, st, host_flags,
                   rrdset_flags, def_version, fn, wb>>
    /\ UNCHANGED <<parentVars, unitVars>>

\* line 553: rrdset_flags = rrdset_flag_get(st)
GetFlags(t) ==
    /\ pc[t] = "flags"
    /\ rrdset_flags' = [rrdset_flags EXCEPT ![t] = chartFlags[st[t]]]
    /\ Goto(t, "classify")
    /\ UNCHANGED <<hostVars, chartVars, configVars, bufferVars, st, host_flags,
                   exposed_upstream, def_version, fn, wb>>
    /\ UNCHANGED <<parentVars, unitVars>>

\* the tick without lines 560-563: the definition is never sent first
InitializeBranch_NoDefinition(exposed, flags, shouldSend) ==
    IF (exposed /\ RRDSET_FLAG_SENDER_REPLICATION_FINISHED \notin flags)
       \/ ~shouldSend
    THEN "return"
    ELSE "values"

\* lines 554-566 up to the first sender_start: what the tick does next
\* ("return": no buffer; "definition"; "values")
InitializeBranch(exposed, flags, shouldSend) ==
    IF (exposed /\ RRDSET_FLAG_SENDER_REPLICATION_FINISHED \notin flags)
       \/ ~shouldSend
    THEN "return"
    ELSE IF ~exposed THEN "definition" ELSE "values"

Classify(t) ==
    /\ pc[t] = "classify"
    /\ LET c == st[t]
           skip == exposed_upstream[t]
                   /\ RRDSET_FLAG_SENDER_REPLICATION_FINISHED \notin rrdset_flags[t]
           s == should_send_chart_matching(c, rrdset_flags[t])
           b == InitializeBranch(exposed_upstream[t], rrdset_flags[t],
                                 skip \/ s.ret)
       IN  /\ chartFlags' = IF skip THEN chartFlags
                            ELSE [chartFlags EXCEPT ![c] = @ \cup s.set]
           /\ IF b = "return"
              THEN Return(t)
              ELSE /\ Goto(t, IF b = "definition" THEN "def_start" ELSE "values_start")
                   /\ exposed_upstream' = [exposed_upstream EXCEPT ![t] = FALSE]
                   /\ rrdset_flags' = [rrdset_flags EXCEPT ![t] = {}]
                   /\ UNCHANGED <<st, host_flags, def_version, fn, wb>>
    /\ UNCHANGED <<hostVars, version, sentVersion, replicatingCharts, configVars,
                   bufferVars>>
    /\ UNCHANGED <<parentVars, unitVars>>

\* a sender_start that does not wait for the commit mutex
sender_start_NoWait(t) ==
    /\ commits < MaxCommits
    /\ senderMutex' = t
    /\ commits' = commits + 1

\* ------------------------------------------------------------------------
\* sender_start(host->sender): takes the commit mutex, hands out the buffer
sender_start(t) ==
    /\ senderMutex = 0
    /\ commits < MaxCommits
    /\ senderMutex' = t
    /\ commits' = commits + 1

\* sender_commit(host->sender, wb, type): appends the buffer to the sender
\* buffer and releases the commit mutex
sender_commit(t, records) ==
    /\ senderMutex = t
    /\ stream' = stream \o records
    /\ senderMutex' = 0

\* the records rrdpush_send_chart_definition writes for chart c
DefinitionRecords(c) ==
    <<Rec("CHART", c), Rec("DIMENSION", c)>>
    \o (IF stream_has_capability(STREAM_CAP_REPLICATION)
        THEN <<Rec("CHART_DEFINITION_END", c)>> ELSE << >>)

\* a definition that sets the exposed marker before it writes and commits
DefinitionStart_ExposesFirst(t) ==
    /\ pc[t] = "def_start"
    /\ sender_start(t)
    /\ sentVersion' = [sentVersion EXCEPT ![st[t]] = version[st[t]]]
    /\ def_version' = [def_version EXCEPT ![t] = version[st[t]]]
    /\ wb' = [wb EXCEPT ![t] = DefinitionRecords(st[t])]
    /\ Goto(t, IF stream_has_capability(STREAM_CAP_REPLICATION)
               THEN "def_in_progress" ELSE "def_commit")
    /\ UNCHANGED <<hostVars, chartFlags, version, replicatingCharts, configVars,
                   stream, st, host_flags, exposed_upstream, rrdset_flags, fn>>
    /\ UNCHANGED <<parentVars, unitVars>>

\* the caller's sender_start, then rrdpush_send_chart_definition up to the
\* test of the REPLICATION capability (lines 225-310)
DefinitionStart(t) ==
    /\ pc[t] = "def_start"
    /\ sender_start(t)
    /\ def_version' = [def_version EXCEPT ![t] = version[st[t]]]
    /\ wb' = [wb EXCEPT ![t] = DefinitionRecords(st[t])]
    /\ Goto(t, IF stream_has_capability(STREAM_CAP_REPLICATION)
               THEN "def_in_progress" ELSE "def_commit")
    /\ UNCHANGED <<hostVars, chartVars, configVars, stream, st, host_flags,
                   exposed_upstream, rrdset_flags, fn>>
    /\ UNCHANGED <<parentVars, unitVars>>

\* lines 321-322: if the chart is not in progress, set IN_PROGRESS
SetInProgress(flags) == flags \cup {RRDSET_FLAG_SENDER_REPLICATION_IN_PROGRESS}

\* lines 321-325 without the test of line 321: every definition counts
DefinitionInProgress_AlwaysCounts(t) ==
    /\ pc[t] = "def_in_progress"
    /\ chartFlags' = [chartFlags EXCEPT ![st[t]] =
                        @ \cup {RRDSET_FLAG_SENDER_REPLICATION_IN_PROGRESS}]
    /\ Goto(t, "def_finished")
    /\ UNCHANGED <<hostVars, version, sentVersion, replicatingCharts, configVars,
                   bufferVars, localVars>>
    /\ UNCHANGED <<parentVars, unitVars>>

DefinitionInProgress(t) ==
    /\ pc[t] = "def_in_progress"
    /\ IF RRDSET_FLAG_SENDER_REPLICATION_IN_PROGRESS \notin chartFlags[st[t]]
       THEN /\ chartFlags' = [chartFlags EXCEPT ![st[t]] = SetInProgress(@)]
            /\ Goto(t, "def_finished")
       ELSE /\ Goto(t, "def_commit")
            /\ UNCHANGED chartFlags
    /\ UNCHANGED <<hostVars, version, sentVersion, replicatingCharts, configVars,
                   bufferVars, localVars>>
    /\ UNCHANGED <<parentVars, unitVars>>

\* line 323: rrdset_flag_clear(st, SENDER_REPLICATION_FINISHED)
DefinitionClearFinished(t) ==
    /\ pc[t] = "def_finished"
    /\ chartFlags' = [chartFlags EXCEPT ![st[t]] =
                        @ \ {RRDSET_FLAG_SENDER_REPLICATION_FINISHED}]
    /\ Goto(t, "def_plus_one")
    /\ UNCHANGED <<hostVars, version, sentVersion, replicatingCharts, configVars,
                   bufferVars, localVars>>
    /\ UNCHANGED <<parentVars, unitVars>>

\* line 324: rrdhost_sender_replicating_charts_plus_one(st->rrdhost)
DefinitionPlusOne(t) ==
    /\ pc[t] = "def_plus_one"
    /\ replicatingCharts' = replicatingCharts + 1
    /\ Goto(t, "def_commit")
    /\ UNCHANGED <<hostVars, chartFlags, version, sentVersion, configVars,
                   bufferVars, localVars>>
    /\ UNCHANGED <<parentVars, unitVars>>

\* line 334: sender_commit(host->sender, wb, STREAM_TRAFFIC_TYPE_METADATA)
DefinitionCommit(t) ==
    /\ pc[t] = "def_commit"
    /\ sender_commit(t, wb[t])
    /\ wb' = [wb EXCEPT ![t] = << >>]
    /\ Goto(t, "def_exposed")
    /\ UNCHANGED <<hostVars, chartVars, configVars, commits, st, host_flags,
                   exposed_upstream, rrdset_flags, def_version, fn>>
    /\ UNCHANGED <<parentVars, unitVars>>

\* lines 338-345: the exposed markers are set after the commit; then back in
\* the caller: the tick returns no buffer when replication started, and
\* rrdset_push_chart_definition_now returns
DefinitionExposed(t) ==
    /\ pc[t] = "def_exposed"
    /\ sentVersion' = [sentVersion EXCEPT ![st[t]] = def_version[t]]
    /\ IF fn[t] = "metric_initialize"
          /\ ~stream_has_capability(STREAM_CAP_REPLICATION)
       THEN /\ Goto(t, "values_start")
            /\ def_version' = [def_version EXCEPT ![t] = 0]
            /\ UNCHANGED <<st, host_flags, exposed_upstream, rrdset_flags, fn, wb>>
       ELSE Return(t)
    /\ UNCHANGED <<hostVars, chartFlags, version, replicatingCharts, configVars,
                   bufferVars>>
    /\ UNCHANGED <<parentVars, unitVars>>

\* lines 568-574: the stream buffer handed to the collector, with sender_start
ValuesStart(t) ==
    /\ pc[t] = "values_start"
    /\ sender_start(t)
    /\ Goto(t, "collecting")
    /\ UNCHANGED <<hostVars, chartVars, configVars, stream, localVars>>
    /\ UNCHANGED <<parentVars, unitVars>>

\* the records of one collected point of chart c, in the framing of the buffer
ValueRecords(c) ==
    IF stream_has_capability(STREAM_CAP_INTERPOLATED)
    THEN <<Rec("BEGIN_V2", c), Rec("SET_V2", c), Rec("END_V2", c)>>
    ELSE <<Rec("BEGIN", c), Rec("SET", c), Rec("END", c)>>

\* rrdset_push_metrics_v1 / rrddim_push_metrics_v2 for one dimension, then
\* rrdset_push_metrics_finished(rsb, st)
rrdset_push_metrics_finished(t) ==
    /\ pc[t] = "collecting"
    /\ sender_commit(t, ValueRecords(st[t]))
    /\ Return(t)
    /\ UNCHANGED <<hostVars, chartVars, configVars, commits>>
    /\ UNCHANGED <<parentVars, unitVars>>

\* rrdset_push_chart_definition_now(st): the test of
\* rrdhost_can_send_definitions_to_parent and rrdset_flag_get(st)
ChartDefinitionNow(t, c) ==
    /\ pc[t] = "idle"
    /\ IF rrdhost_can_send_definitions_to_parent
       THEN /\ Goto(t, "now_classify")
            /\ st' = [st EXCEPT ![t] = c]
            /\ fn' = [fn EXCEPT ![t] = "chart_definition_now"]
            /\ rrdset_flags' = [rrdset_flags EXCEPT ![t] = chartFlags[c]]
            /\ UNCHANGED <<host_flags, exposed_upstream, def_version, wb>>
       ELSE UNCHANGED <<pc, localVars>>
    /\ UNCHANGED <<hostVars, chartVars, configVars, bufferVars>>
    /\ UNCHANGED <<parentVars, unitVars>>

\* rrdset_push_chart_definition_now(st): should_send_chart_matching
NowClassify(t) ==
    /\ pc[t] = "now_classify"
    /\ LET c == st[t]
           s == should_send_chart_matching(c, rrdset_flags[t])
       IN  /\ chartFlags' = [chartFlags EXCEPT ![c] = @ \cup s.set]
           /\ IF s.ret
              THEN /\ Goto(t, "def_start")
                   /\ rrdset_flags' = [rrdset_flags EXCEPT ![t] = {}]
                   /\ UNCHANGED <<st, host_flags, exposed_upstream, def_version,
                                  fn, wb>>
              ELSE Return(t)
    /\ UNCHANGED <<hostVars, version, sentVersion, replicatingCharts, configVars,
                   bufferVars>>
    /\ UNCHANGED <<parentVars, unitVars>>

\* ------------------------------------------------------------------------
\* The other threads of the agent

\* the sender thread connects to a parent and negotiates the capabilities
SenderConnects ==
    /\ senderThreads >= 1
    /\ RRDHOST_FLAG_RRDPUSH_SENDER_CONNECTED \notin hostFlags
    /\ hostFlags' = hostFlags \cup {RRDHOST_FLAG_RRDPUSH_SENDER_CONNECTED,
                                    RRDHOST_FLAG_RRDPUSH_SENDER_READY_4_METRICS}
    /\ capabilities' \in SUBSET {STREAM_CAP_REPLICATION, STREAM_CAP_INTERPOLATED}
    /\ UNCHANGED <<senderThreads, shutdown, chartVars, configVars, bufferVars, pc,
                   localVars>>
    /\ UNCHANGED <<parentVars, unitVars>>

\* the replication subsystem finished the catch-up of a chart, which the
\* parent asks for once it has the chart's CHART_DEFINITION_END
SenderReplicationFinished(c) ==
    /\ RRDSET_FLAG_SENDER_REPLICATION_IN_PROGRESS \in chartFlags[c]
    /\ \E i \in DOMAIN stream : stream[i] = Rec("CHART_DEFINITION_END", c)
    /\ chartFlags' = [chartFlags EXCEPT ![c] =
                        (@ \cup {RRDSET_FLAG_SENDER_REPLICATION_FINISHED})
                        \ {RRDSET_FLAG_SENDER_REPLICATION_IN_PROGRESS}]
    /\ replicatingCharts' = replicatingCharts - 1
    /\ UNCHANGED <<hostVars, version, sentVersion, configVars, bufferVars, pc,
                   localVars>>
    /\ UNCHANGED <<parentVars, unitVars>>

\* rrdset_metadata_updated(st): the chart's definition changed
rrdset_metadata_updated(c) ==
    /\ version[c] < MaxVersion
    /\ version' = [version EXCEPT ![c] = @ + 1]
    /\ UNCHANGED <<hostVars, chartFlags, sentVersion, replicatingCharts,
                   configVars, bufferVars, pc, localVars>>
    /\ UNCHANGED <<parentVars, unitVars>>

\* a mirrored chart finished its replication on the receiving side
ReceiverReplicationFinished(c) ==
    /\ RRDSET_FLAG_RECEIVER_REPLICATION_FINISHED \notin chartFlags[c]
    /\ chartFlags' = [chartFlags EXCEPT ![c] =
                        @ \cup {RRDSET_FLAG_RECEIVER_REPLICATION_FINISHED}]
    /\ UNCHANGED <<hostVars, version, sentVersion, replicatingCharts, configVars,
                   bufferVars, pc, localVars>>
    /\ UNCHANGED <<parentVars, unitVars>>

\* the send-charts pattern or the ML-streaming setting changes, between calls
\* of should_send_chart_matching
ConfigChanges ==
    /\ \A t \in Threads : pc[t] \notin {"classify", "now_classify"}
    /\ sendChartsMatching' \in [Charts -> BOOLEAN]
    /\ mlStreaming' \in BOOLEAN
    /\ <<sendChartsMatching', mlStreaming'>> # <<sendChartsMatching, mlStreaming>>
    /\ UNCHANGED <<hostVars, chartVars, bufferVars, pc, localVars>>
    /\ UNCHANGED <<parentVars, unitVars>>

\* a function of the host was added or removed
GlobalFunctionsUpdated ==
    /\ RRDHOST_FLAG_GLOBAL_FUNCTIONS_UPDATED \notin hostFlags
    /\ hostFlags' = hostFlags \cup {RRDHOST_FLAG_GLOBAL_FUNCTIONS_UPDATED}
    /\ UNCHANGED <<senderThreads, capabilities, shutdown, chartVars, configVars,
                   bufferVars, pc, localVars>>
    /\ UNCHANGED <<parentVars, unitVars>>

\* the receiver of a mirrored host is connected again
ReceiverConnected ==
    /\ RRDHOST_FLAG_RRDPUSH_RECEIVER_DISCONNECTED \in hostFlags
    /\ hostFlags' = hostFlags \ {RRDHOST_FLAG_RRDPUSH_RECEIVER_DISCONNECTED}
    /\ UNCHANGED <<senderThreads, capabilities, shutdown, chartVars, configVars,
                   bufferVars, pc, localVars>>
    /\ UNCHANGED <<parentVars, unitVars>>

ChildNext ==
    \/ \E t \in Collectors, c \in Charts : MetricInitialize(t, c)
    \/ \E t \in Threads : SenderThreadSpawn(t)
    \/ \E t \in Threads : GlobalFunctions(t)
    \/ \E t \in Threads : CheckExposed(t)
    \/ \E t \in Threads : GetFlags(t)
    \/ \E t \in Threads : Classify(t)
    \/ \E t \in Threads : DefinitionStart(t)
    \/ \E t \in Threads : DefinitionInProgress(t)
    \/ \E t \in Threads : DefinitionClearFinished(t)
    \/ \E t \in Threads : DefinitionPlusOne(t)
    \/ \E t \in Threads : DefinitionCommit(t)
    \/ \E t \in Threads : DefinitionExposed(t)
    \/ \E t \in Threads : ValuesStart(t)
    \/ \E t \in Threads : rrdset_push_metrics_finished(t)
    \/ \E t \in Others, c \in Charts : ChartDefinitionNow(t, c)
    \/ \E t \in Threads : NowClassify(t)
    \/ SenderConnects
    \/ \E c \in Charts : SenderReplicationFinished(c)
    \/ \E c \in Charts : rrdset_metadata_updated(c)
    \/ \E c \in Charts : ReceiverReplicationFinished(c)
    \/ ConfigChanges
    \/ GlobalFunctionsUpdated


\* ------------------------------------------------------------------------
\* The spawn gate alone: collector threads ticking on a host whose sender
\* never becomes ready, a receiver that connects, a sender thread that exits

SpawnThreads == {1, 2, 3}

SpawnInit ==
    /\ hostFlags \in SUBSET {RRDHOST_FLAG_RRDPUSH_RECEIVER_DISCONNECTED}
    /\ senderThreads = 0
    /\ capabilities = {}
    /\ shutdown = FALSE
    /\ senderMutex = 0
    /\ chartFlags = [c \in Charts |-> {RRDSET_FLAG_SENDER_REPLICATION_FINISHED,
                                       RRDSET_FLAG_RECEIVER_REPLICATION_FINISHED}]
    /\ version = [c \in Charts |-> 0]
    /\ sentVersion = [c \in Charts |-> -1]
    /\ replicatingCharts = 0
    /\ sendChartsMatching = [c \in Charts |-> TRUE]
    /\ mlStreaming = FALSE
    /\ stream = << >>
    /\ commits = 0
    /\ pc = [t \in SpawnThreads |-> "idle"]
    /\ st = [t \in SpawnThreads |-> 0]
    /\ host_flags = [t \in SpawnThreads |-> {}]
    /\ exposed_upstream = [t \in SpawnThreads |-> FALSE]
    /\ rrdset_flags = [t \in SpawnThreads |-> {}]
    /\ def_version = [t \in SpawnThreads |-> 0]
    /\ fn = [t \in SpawnThreads |-> "none"]
    /\ wb = [t \in SpawnThreads |-> << >>]

\* the receiver of the mirrored host lost its connection
ReceiverDisconnected ==
    /\ RRDHOST_FLAG_RRDPUSH_RECEIVER_DISCONNECTED \notin hostFlags
    /\ hostFlags' = hostFlags \cup {RRDHOST_FLAG_RRDPUSH_RECEIVER_DISCONNECTED}
    /\ UNCHANGED <<senderThreads, capabilities, shutdown, chartVars, configVars,
                   bufferVars, pc, localVars>>
    /\ UNCHANGED <<parentVars, unitVars>>

\* rrdpush_sender_thread_stop(host, reason, false), under sender_lock
rrdpush_sender_thread_stop ==
    /\ senderMutex = 0
    /\ shutdown' = IF RRDHOST_FLAG_RRDPUSH_SENDER_SPAWN \in hostFlags
                   THEN TRUE ELSE shutdown
    /\ UNCHANGED <<hostFlags, senderThreads, capabilities, chartVars, configVars,
                   bufferVars, pc, localVars>>
    /\ UNCHANGED <<parentVars, unitVars>>

\* the sender thread terminates: its cleanup clears sender_spawned
SenderThreadExits ==
    /\ senderThreads >= 1
    /\ senderThreads' = senderThreads - 1
    /\ hostFlags' = hostFlags \ {RRDHOST_FLAG_RRDPUSH_SENDER_SPAWN}
    /\ shutdown' = FALSE
    /\ UNCHANGED <<capabilities, chartVars, configVars, bufferVars, pc, localVars>>
    /\ UNCHANGED <<parentVars, unitVars>>

SpawnNext ==
    \/ \E t \in SpawnThreads, c \in Charts : MetricInitialize(t, c)
    \/ \E t \in SpawnThreads : SenderThreadSpawn(t)
    \/ ReceiverConnected
    \/ ReceiverDisconnected
    \/ rrdpush_sender_thread_stop
    \/ SenderThreadExits


\* ------------------------------------------------------------------------
\* The parent side: rrdpush_receiver_thread_spawn

\* the seconds the clock may reach
MaxClock == 40
\* receiver threads created and not yet attached, at most
MaxWorkers == 2

WebThreads == {1, 2}
ClockSteps == {5, 30}
Rates == {0, 30}

NULLSTR == "<null>"
UNSET == "<unset>"
ApiKey == "11111111-2222-3333-4444-555555555555"
ChildGuid == "aaaaaaaa-bbbb-cccc-dddd-eeeeeeeeeeee"
LocalhostGuid == "00000000-1111-2222-3333-444444444444"
NoRequest == [key |-> NULLSTR]
NoReceiver == [last_msg_t |-> -1, shutdown |-> FALSE]

\* regenerate_guid(s, buf): 0 when s parses as a UUID, -1 otherwise
regenerate_guid(s) == IF s \in {ApiKey, ChildGuid, LocalhostGuid} THEN 0 ELSE -1

\* appconfig_get(&stream_config, section, name, default)
appconfig_get(value, default) == IF value = UNSET THEN default ELSE value

\* appconfig_get_boolean(&stream_config, section, name, default)
appconfig_get_boolean(value, default) ==
    IF value = UNSET THEN default ELSE value = "yes"

\* simple_pattern_create(list, ...) gives no pattern for an empty list
simple_pattern_create(list) == IF list = "" THEN NULLSTR ELSE list

\* simple_pattern_matches(pattern, w->client_ip), the client being 10.1.2.3
simple_pattern_matches(pattern) == pattern \in {"*", "10.*"}

\* the requests a web client can make, with what stream.conf holds for the
\* request's key and machine_guid
AllRequests ==
    [key : {NULLSTR, "", "not-a-uuid", ApiKey},
     hostname : {NULLSTR, "", "child"},
     machine_guid : {NULLSTR, "", "not-a-uuid", ChildGuid, LocalhostGuid},
     key_type : {UNSET, "", "api", "machine"},
     key_enabled : {UNSET, "yes", "no"},
     key_allow_from : {UNSET, "", "10.*", "192.168.*"},
     machine_type : {UNSET, "", "machine", "api"},
     machine_enabled : {UNSET, "yes", "no"},
     machine_allow_from : {UNSET, "", "10.*", "192.168.*"}]

GoodRequest ==
    [key |-> ApiKey, hostname |-> "child", machine_guid |-> ChildGuid,
     key_type |-> "api", key_enabled |-> "yes", key_allow_from |-> UNSET,
     machine_type |-> UNSET, machine_enabled |-> UNSET,
     machine_allow_from |-> UNSET]

\* the requests of the interleaving model: an acceptable one, one that carries
\* the parent's own machine_guid, one without a key
Requests ==
    {GoodRequest,
     [GoodRequest EXCEPT !.machine_guid = LocalhostGuid],
     [GoodRequest EXCEPT !.key = NULLSTR]}

\* the api key is enabled only when configured so
rrdpush_key_enabled_EnabledByDefault(r) == appconfig_get_boolean(r.key_enabled, TRUE)

\* line 1113: appconfig_get_boolean(&stream_config, rpt->key, "enabled", 0)
rrdpush_key_enabled(r) == appconfig_get_boolean(r.key_enabled, FALSE)

\* lines 1050-1185: the first check the request fails, or "ok"
rrdpush_receiver_validate(r) ==
    LET api_key_type == LET v == appconfig_get(r.key_type, "api")
                        IN IF v = "" THEN "unknown" ELSE v
        key_allow_from ==
            simple_pattern_create(appconfig_get(r.key_allow_from, "*"))
        machine_guid_type == LET v == appconfig_get(r.machine_type, "machine")
                             IN IF v = "" THEN "unknown" ELSE v
        machine_allow_from ==
            simple_pattern_create(appconfig_get(r.machine_allow_from, "*"))
    IN  IF r.key \in {NULLSTR, ""} THEN "no api key"
        ELSE IF r.hostname \in {NULLSTR, ""} THEN "no hostname"
        ELSE IF r.machine_guid \in {NULLSTR, ""} THEN "no machine guid"
        ELSE IF regenerate_guid(r.key) = -1 THEN "invalid api key"
        ELSE IF regenerate_guid(r.machine_guid) = -1 THEN "invalid machine guid"
        ELSE IF api_key_type # "api" THEN "api key is a machine guid"
        ELSE IF ~rrdpush_key_enabled(r) THEN "api key not enabled"
        ELSE IF key_allow_from # NULLSTR /\ ~simple_pattern_matches(key_allow_from)
             THEN "api key not permitted from this ip"
        ELSE IF machine_guid_type # "machine" THEN "machine guid is an api key"
        ELSE IF ~appconfig_get_boolean(r.machine_enabled, TRUE)
             THEN "machine guid not enabled"
        ELSE IF machine_allow_from # NULLSTR
                /\ ~simple_pattern_matches(machine_allow_from)
             THEN "machine guid not permitted from this ip"
        ELSE "ok"

HTTP_RESP_OK == 200
HTTP_RESP_UNAUTHORIZED == 401
HTTP_RESP_CONFLICT == 409
HTTP_RESP_INTERNAL_SERVER_ERROR == 500
HTTP_RESP_SERVICE_UNAVAILABLE == 503

\* the bodies of the refusals
START_STREAMING_ERROR_NOT_PERMITTED == "NOT_PERMITTED"
START_STREAMING_ERROR_BUSY_TRY_LATER == "BUSY_TRY_LATER"
START_STREAMING_ERROR_ALREADY_STREAMING == "ALREADY_STREAMING"

\* a refusal that tells the check that failed
rrdpush_receiver_permission_denied_Telling(check) ==
    [code |-> HTTP_RESP_UNAUTHORIZED, data |-> check]

\* rrdpush_receiver_permission_denied(w), called where the check failed:
\* the body is flushed and written, the code returned
rrdpush_receiver_permission_denied(check) ==
    [code |-> HTTP_RESP_UNAUTHORIZED,
     data |-> START_STREAMING_ERROR_NOT_PERMITTED]

\* the child side at rest, for the specifications of the parent side
ChildQuiet ==
    /\ hostFlags = {}
    /\ senderThreads = 0
    /\ capabilities = {}
    /\ shutdown = FALSE
    /\ senderMutex = 0
    /\ chartFlags = [c \in Charts |-> {}]
    /\ version = [c \in Charts |-> 0]
    /\ sentVersion = [c \in Charts |-> -1]
    /\ replicatingCharts = 0
    /\ sendChartsMatching = [c \in Charts |-> TRUE]
    /\ mlStreaming = FALSE
    /\ stream = << >>
    /\ commits = 0
    /\ pc = [t \in Threads |-> "idle"]
    /\ st = [t \in Threads |-> 0]
    /\ host_flags = [t \in Threads |-> {}]
    /\ exposed_upstream = [t \in Threads |-> FALSE]
    /\ rrdset_flags = [t \in Threads |-> {}]
    /\ def_version = [t \in Threads |-> 0]
    /\ fn = [t \in Threads |-> "none"]
    /\ wb = [t \in Threads |-> << >>]

\* the web threads at rest
WebQuiet ==
    /\ rpc = [w \in WebThreads |-> "idle"]
    /\ req = [w \in WebThreads |-> NoRequest]
    /\ rnow = [w \in WebThreads |-> 0]
    /\ response = [w \in WebThreads |-> 0]
    /\ response_data = [w \in WebThreads |-> ""]
    /\ takeover = [w \in WebThreads |-> FALSE]
    /\ thread_created = [w \in WebThreads |-> FALSE]
    /\ stop_signalled = [w \in WebThreads |-> FALSE]

\* the parent side at rest, for the specifications of the child side
ParentQuiet ==
    /\ now = 5
    /\ serviceRunning = TRUE
    /\ streamingRate = 0
    /\ last_stream_accepted_t = 0
    /\ hostX = "none"
    /\ receiver = NoReceiver
    /\ workers = 0
    /\ WebQuiet

\* a parent that has not accepted a connection yet
RecvInit ==
    /\ ChildQuiet
    /\ UnitQuiet
    /\ now = 5
    /\ serviceRunning = TRUE
    /\ streamingRate \in Rates
    /\ last_stream_accepted_t = 0
    /\ hostX \in {"none", "archived"}
    /\ receiver = NoReceiver
    /\ workers = 0
    /\ WebQuiet

\* ------------------------------------------------------------------------
\* rrdpush_receiver_thread_spawn(w, decoded_query_string, h2o_ctx), in steps
\* at its reads and writes of shared state

\* the request returns: the HTTP code, and what became of its socket
Respond(w, code, data, taken, created, stopped) ==
    /\ rpc' = [rpc EXCEPT ![w] = "idle"]
    /\ rnow' = [rnow EXCEPT ![w] = 0]
    /\ response' = [response EXCEPT ![w] = code]
    /\ response_data' = [response_data EXCEPT ![w] = data]
    /\ takeover' = [takeover EXCEPT ![w] = taken]
    /\ thread_created' = [thread_created EXCEPT ![w] = created]
    /\ stop_signalled' = [stop_signalled EXCEPT ![w] = stopped]

\* the web server hands an upgrade request to a web thread
RequestArrives(w, r) ==
    /\ rpc[w] = "idle"
    /\ rpc' = [rpc EXCEPT ![w] = "arrived"]
    /\ req' = [req EXCEPT ![w] = r]
    /\ response' = [response EXCEPT ![w] = 0]
    /\ response_data' = [response_data EXCEPT ![w] = ""]
    /\ takeover' = [takeover EXCEPT ![w] = FALSE]
    /\ thread_created' = [thread_created EXCEPT ![w] = FALSE]
    /\ stop_signalled' = [stop_signalled EXCEPT ![w] = FALSE]
    /\ UNCHANGED <<now, serviceRunning, limiterVars, mirrorVars, rnow>>
    /\ UNCHANGED <<childVars, unitVars>>

\* lines 915-1219 with the rate limiter's timestamp written before the
\* validation
ReceiverEntry_LimiterFirst(w) ==
    /\ rpc[w] = "arrived"
    /\ last_stream_accepted_t' = now
    /\ IF ~serviceRunning
       THEN Respond(w, HTTP_RESP_SERVICE_UNAVAILABLE,
                    START_STREAMING_ERROR_BUSY_TRY_LATER, FALSE, FALSE, FALSE)
       ELSE IF rrdpush_receiver_validate(req[w]) # "ok"
       THEN LET denied == rrdpush_receiver_permission_denied(
                               rrdpush_receiver_validate(req[w]))
            IN  Respond(w, denied.code, denied.data, FALSE, FALSE, FALSE)
       ELSE IF req[w].machine_guid = LocalhostGuid
       THEN Respond(w, HTTP_RESP_OK, "", TRUE, FALSE, FALSE)
       ELSE /\ rpc' = [rpc EXCEPT ![w] = IF streamingRate > 0 THEN "limiter"
                                                              ELSE "duplicate"]
            /\ rnow' = [rnow EXCEPT ![w] = IF streamingRate > 0 THEN now ELSE 0]
            /\ UNCHANGED <<response, response_data, takeover, thread_created, stop_signalled>>
    /\ UNCHANGED <<now, serviceRunning, streamingRate, mirrorVars, req>>
    /\ UNCHANGED <<childVars, unitVars>>

\* lines 915-1219: the service check, the validation, the request with the
\* machine_guid of localhost, and the rate limiter's read of the clock
ReceiverEntry(w) ==
    /\ rpc[w] = "arrived"
    /\ IF ~serviceRunning
       THEN Respond(w, HTTP_RESP_SERVICE_UNAVAILABLE,
                    START_STREAMING_ERROR_BUSY_TRY_LATER, FALSE, FALSE, FALSE)
       ELSE IF rrdpush_receiver_validate(req[w]) # "ok"
       THEN LET denied == rrdpush_receiver_permission_denied(
                               rrdpush_receiver_validate(req[w]))
            IN  Respond(w, denied.code, denied.data, FALSE, FALSE, FALSE)
       ELSE IF req[w].machine_guid = LocalhostGuid
       THEN Respond(w, HTTP_RESP_OK, "", TRUE, FALSE, FALSE)
       ELSE /\ rpc' = [rpc EXCEPT ![w] = IF streamingRate > 0 THEN "limiter"
                                                              ELSE "duplicate"]
            /\ rnow' = [rnow EXCEPT ![w] = IF streamingRate > 0 THEN now ELSE 0]
            /\ UNCHANGED <<response, response_data, takeover, thread_created, stop_signalled>>
    /\ UNCHANGED <<now, serviceRunning, limiterVars, mirrorVars, req>>
    /\ UNCHANGED <<childVars, unitVars>>

\* lines 1220-1242, under the spinlock: the timestamp the limiter leaves and
\* whether the request passes
rate_limiter(t, last) ==
    LET l == IF last = 0 THEN t ELSE last
    IN  IF t - l < streamingRate
        THEN [last |-> l, pass |-> FALSE]
        ELSE [last |-> t, pass |-> TRUE]

RateLimiter(w) ==
    /\ rpc[w] = "limiter"
    /\ LET r == rate_limiter(rnow[w], last_stream_accepted_t)
       IN  /\ last_stream_accepted_t' = r.last
           /\ IF r.pass
              THEN /\ rpc' = [rpc EXCEPT ![w] = "duplicate"]
                   /\ rnow' = [rnow EXCEPT ![w] = 0]
                   /\ UNCHANGED <<response, response_data, takeover, thread_created,
                                  stop_signalled>>
              ELSE Respond(w, HTTP_RESP_SERVICE_UNAVAILABLE,
                    START_STREAMING_ERROR_BUSY_TRY_LATER, FALSE, FALSE, FALSE)
    /\ UNCHANGED <<now, serviceRunning, streamingRate, mirrorVars, req>>
    /\ UNCHANGED <<childVars, unitVars>>

\* lines 1266-1271 with no receiver taken for stale
receiver_age_NeverStale(age) == "working"

\* lines 1266-1271 with every receiver taken for stale
receiver_age_AlwaysStale(age) == "stale"

\* lines 1266-1271: "working" or "stale", by the age of the last message
receiver_age(age) == IF age < 30 THEN "working" ELSE "stale"

\* lines 1259-1274, under rrd_rdlock and the host's receiver_lock: what the
\* request finds ("free": no host, an archived host, or no receiver)
duplicate_detection ==
    IF hostX = "live" /\ receiver # NoReceiver
    THEN receiver_age(now - receiver.last_msg_t)
    ELSE "free"

\* lines 1254-1310 up to the call of stop_streaming_receiver
DuplicateDetection(w) ==
    /\ rpc[w] = "duplicate"
    /\ LET found == duplicate_detection
       IN  IF found = "working"
           THEN Respond(w, HTTP_RESP_CONFLICT,
                        START_STREAMING_ERROR_ALREADY_STREAMING, FALSE, FALSE, FALSE)
           ELSE /\ rpc' = [rpc EXCEPT ![w] = IF found = "stale" THEN "stop"
                                                                ELSE "handoff"]
                /\ UNCHANGED <<rnow, response, response_data, takeover, thread_created,
                               stop_signalled>>
    /\ UNCHANGED <<now, serviceRunning, limiterVars, mirrorVars, req>>
    /\ UNCHANGED <<childVars, unitVars>>

\* line 1276: stop_streaming_receiver(host, DISCONNECT_STALE_RECEIVER) signals
\* the receiver and waits for it to detach; it returns whether it did
StopStaleReceiver(w) ==
    /\ rpc[w] = "stop"
    /\ \E stopped \in BOOLEAN :
         /\ receiver = NoReceiver => stopped
         /\ IF stopped
            THEN /\ receiver' = NoReceiver
                 /\ rpc' = [rpc EXCEPT ![w] = "handoff"]
                 /\ stop_signalled' = [stop_signalled EXCEPT ![w] = TRUE]
                 /\ UNCHANGED <<rnow, response, response_data, takeover, thread_created>>
            ELSE /\ receiver' = [receiver EXCEPT !.shutdown = TRUE]
                 /\ Respond(w, HTTP_RESP_CONFLICT,
                        START_STREAMING_ERROR_ALREADY_STREAMING, FALSE, FALSE, TRUE)
    /\ UNCHANGED <<now, serviceRunning, limiterVars, hostX, workers, req>>
    /\ UNCHANGED <<childVars, unitVars>>

\* lines 1312-1330: the take-over of the socket and the receiver thread
HandOff(w) ==
    /\ rpc[w] = "handoff"
    /\ \E created \in BOOLEAN :
         IF created
         THEN /\ workers < MaxWorkers
              /\ workers' = workers + 1
              /\ Respond(w, HTTP_RESP_OK, "", TRUE, TRUE, stop_signalled[w])
         ELSE /\ UNCHANGED workers
              /\ Respond(w, HTTP_RESP_INTERNAL_SERVER_ERROR,
                         "Can't handle this request", TRUE, FALSE,
                         stop_signalled[w])
    /\ UNCHANGED <<now, serviceRunning, limiterVars, hostX, receiver, req>>
    /\ UNCHANGED <<childVars, unitVars>>

\* ------------------------------------------------------------------------
\* The receiver threads and the rest of the parent

\* a receiver thread finds or creates the host and attaches itself as the
\* host's receiver; it gives up when the host has one
ReceiverAttaches ==
    /\ workers > 0
    /\ workers' = workers - 1
    /\ IF receiver = NoReceiver
       THEN /\ receiver' = [last_msg_t |-> now, shutdown |-> FALSE]
            /\ hostX' = "live"
       ELSE UNCHANGED <<receiver, hostX>>
    /\ UNCHANGED <<now, serviceRunning, limiterVars, webVars>>
    /\ UNCHANGED <<childVars, unitVars>>

\* the receiver reads a message of the child
ReceiverMessage ==
    /\ receiver # NoReceiver
    /\ ~receiver.shutdown
    /\ receiver.last_msg_t # now
    /\ receiver' = [receiver EXCEPT !.last_msg_t = now]
    /\ UNCHANGED <<now, serviceRunning, limiterVars, hostX, workers, webVars>>
    /\ UNCHANGED <<childVars, unitVars>>

\* the receiver thread returns: the host's receiver pointer is cleared
ReceiverExits ==
    /\ receiver # NoReceiver
    /\ receiver' = NoReceiver
    /\ UNCHANGED <<now, serviceRunning, limiterVars, hostX, workers, webVars>>
    /\ UNCHANGED <<childVars, unitVars>>

\* a host without a receiver is archived
HostArchived ==
    /\ hostX = "live"
    /\ receiver = NoReceiver
    /\ hostX' = "archived"
    /\ UNCHANGED <<now, serviceRunning, limiterVars, receiver, workers, webVars>>
    /\ UNCHANGED <<childVars, unitVars>>

\* time passes
ClockTick(d) ==
    /\ now + d <= MaxClock
    /\ now' = now + d
    /\ UNCHANGED <<serviceRunning, limiterVars, mirrorVars, webVars>>
    /\ UNCHANGED <<childVars, unitVars>>

\* the agent begins to shut down
ServiceStops ==
    /\ serviceRunning
    /\ serviceRunning' = FALSE
    /\ UNCHANGED <<now, limiterVars, mirrorVars, webVars>>
    /\ UNCHANGED <<childVars, unitVars>>

RecvNext ==
    \/ \E w \in WebThreads, r \in Requests : RequestArrives(w, r)
    \/ \E w \in WebThreads : ReceiverEntry(w)
    \/ \E w \in WebThreads : RateLimiter(w)
    \/ \E w \in WebThreads : DuplicateDetection(w)
    \/ \E w \in WebThreads : StopStaleReceiver(w)
    \/ \E w \in WebThreads : HandOff(w)
    \/ ReceiverAttaches
    \/ ReceiverMessage
    \/ ReceiverExits
    \/ HostArchived
    \/ \E d \in ClockSteps : ClockTick(d)
    \/ ServiceStops

\* one request out of all a client can make, at the entry of
\* rrdpush_receiver_thread_spawn
ValidInit ==
    /\ ChildQuiet
    /\ UnitQuiet
    /\ now = 5
    /\ serviceRunning \in BOOLEAN
    /\ streamingRate = 0
    /\ last_stream_accepted_t = 0
    /\ hostX = "none"
    /\ receiver = NoReceiver
    /\ workers = 0
    /\ rpc = [w \in WebThreads |-> IF w = 1 THEN "arrived" ELSE "idle"]
    /\ req \in {[w \in WebThreads |-> IF w = 1 THEN r ELSE NoRequest] :
                  r \in AllRequests}
    /\ rnow = [w \in WebThreads |-> 0]
    /\ response = [w \in WebThreads |-> 0]
    /\ response_data = [w \in WebThreads |-> ""]
    /\ takeover = [w \in WebThreads |-> FALSE]
    /\ thread_created = [w \in WebThreads |-> FALSE]
    /\ stop_signalled = [w \in WebThreads |-> FALSE]

ValidNext ==
    \/ \E w \in WebThreads : ReceiverEntry(w)
    \/ \E w \in WebThreads : DuplicateDetection(w)
    \/ \E w \in WebThreads : HandOff(w)

\* ------------------------------------------------------------------------
\* Capabilities: stream_our_capabilities, convert_stream_version_to_capabilities

STREAM_CAP_V1 == "V1"
STREAM_CAP_V2 == "V2"
STREAM_CAP_VN == "VN"
STREAM_CAP_VCAPS == "VCAPS"
STREAM_CAP_HLABELS == "HLABELS"
STREAM_CAP_CLAIM == "CLAIM"
STREAM_CAP_CLABELS == "CLABELS"
STREAM_CAP_LZ4 == "LZ4"
STREAM_CAP_DATA_WITH_ML == "ML"
\* the compressors of the build
STREAM_CAP_COMPRESSIONS_AVAILABLE ==
    {STREAM_CAP_LZ4, "ZSTD", "GZIP", "BROTLI"}
\* rpt->capabilities before a version parameter was parsed
STREAM_CAP_INVALID == {"INVALID"}

\* the bit of each capability in a STREAM_CAPABILITIES word; bits 0 to 2
\* carry no capability, so that the legacy versions 0 to 5 are no masks, and
\* bit 25 stands for a capability this agent does not know
CapabilityBit ==
    [c \in {"BIT0", "BIT1", "BIT2", "V1", "V2", "VN", "VCAPS", "HLABELS",
            "CLAIM", "CLABELS", "LZ4", "FUNCTIONS", "REPLICATION", "BINARY",
            "INTERPOLATED", "IEEE754", "ML", "SLOTS", "ZSTD", "GZIP",
            "BROTLI", "BIT25"} |->
       CASE c = "BIT0" -> 0 [] c = "BIT1" -> 1 [] c = "BIT2" -> 2
         [] c = "V1" -> 3 [] c = "V2" -> 4 [] c = "VN" -> 5
         [] c = "VCAPS" -> 6 [] c = "HLABELS" -> 7 [] c = "CLAIM" -> 8
         [] c = "CLABELS" -> 9 [] c = "LZ4" -> 10 [] c = "FUNCTIONS" -> 11
         [] c = "REPLICATION" -> 12 [] c = "BINARY" -> 13
         [] c = "INTERPOLATED" -> 14 [] c = "IEEE754" -> 15
         [] c = "ML" -> 16 [] c = "SLOTS" -> 18 [] c = "ZSTD" -> 19
         [] c = "GZIP" -> 20 [] c = "BROTLI" -> 21 [] c = "BIT25" -> 25]

\* the capabilities whose bits are set in the word n
capabilities_of_word(n) ==
    {c \in DOMAIN CapabilityBit : (n \div (2 ^ CapabilityBit[c])) % 2 = 1}

RECURSIVE word_of_capabilities(_)
\* the word with the bits of the capabilities caps
word_of_capabilities(caps) ==
    IF caps = {} THEN 0
    ELSE LET c == CHOOSE x \in caps : TRUE
         IN  2 ^ CapabilityBit[c] + word_of_capabilities(caps \ {c})

STREAM_OLD_VERSION_CLAIM == 3
STREAM_OLD_VERSION_CLABELS == 4
STREAM_OLD_VERSION_LZ4 == 5

\* stream_our_capabilities(host, sender): h is NoHost for host == NULL
NoHost == [globally_disabled |-> {}, ml |-> FALSE,
           disabled_capabilities |-> {}]

\* stream_our_capabilities with nothing disabled
stream_our_capabilities_NothingDisabled(globally_disabled, h, sender) ==
    {STREAM_CAP_V1, STREAM_CAP_V2, STREAM_CAP_VN, STREAM_CAP_VCAPS,
     STREAM_CAP_HLABELS, STREAM_CAP_CLAIM, STREAM_CAP_CLABELS,
     "FUNCTIONS", STREAM_CAP_REPLICATION, "BINARY",
     STREAM_CAP_INTERPOLATED, "SLOTS", "IEEE754",
     STREAM_CAP_DATA_WITH_ML} \cup STREAM_CAP_COMPRESSIONS_AVAILABLE

stream_our_capabilities(globally_disabled, h, sender) ==
    LET disabled_capabilities ==
            globally_disabled
            \cup (IF sender /\ ~h.ml THEN {STREAM_CAP_DATA_WITH_ML} ELSE {})
            \cup (IF sender THEN h.disabled_capabilities ELSE {})
    IN  ({STREAM_CAP_V1, STREAM_CAP_V2, STREAM_CAP_VN, STREAM_CAP_VCAPS,
          STREAM_CAP_HLABELS, STREAM_CAP_CLAIM, STREAM_CAP_CLABELS,
          "FUNCTIONS", STREAM_CAP_REPLICATION, "BINARY",
          STREAM_CAP_INTERPOLATED, "SLOTS", "IEEE754",
          STREAM_CAP_DATA_WITH_ML}
         \cup STREAM_CAP_COMPRESSIONS_AVAILABLE) \ disabled_capabilities

\* lines 1501-1506: the capabilities a version number stands for
version_to_capabilities(v) ==
    IF v <= 1 THEN {STREAM_CAP_V1}
    ELSE IF v < STREAM_OLD_VERSION_CLAIM
    THEN {STREAM_CAP_V2, STREAM_CAP_HLABELS}
    ELSE IF v <= STREAM_OLD_VERSION_CLAIM
    THEN {STREAM_CAP_VN, STREAM_CAP_HLABELS, STREAM_CAP_CLAIM}
    ELSE IF v <= STREAM_OLD_VERSION_CLABELS
    THEN {STREAM_CAP_VN, STREAM_CAP_HLABELS, STREAM_CAP_CLAIM,
          STREAM_CAP_CLABELS}
    ELSE IF v <= STREAM_OLD_VERSION_LZ4
    THEN {STREAM_CAP_VN, STREAM_CAP_HLABELS, STREAM_CAP_CLAIM,
          STREAM_CAP_CLABELS} \cup
         (STREAM_CAP_COMPRESSIONS_AVAILABLE \cap {STREAM_CAP_LZ4})
    ELSE capabilities_of_word(v)

\* strip_versions without the rules of VN and V2
strip_versions_OnlyVcaps(caps) ==
    IF STREAM_CAP_VCAPS \in caps
    THEN caps \ {STREAM_CAP_V1, STREAM_CAP_V2, STREAM_CAP_VN}
    ELSE caps

\* lines 1508-1515
strip_versions(caps) ==
    LET c1 == IF STREAM_CAP_VCAPS \in caps
              THEN caps \ {STREAM_CAP_V1, STREAM_CAP_V2, STREAM_CAP_VN}
              ELSE caps
        c2 == IF STREAM_CAP_VN \in c1
              THEN c1 \ {STREAM_CAP_V1, STREAM_CAP_V2}
              ELSE c1
    IN  IF STREAM_CAP_V2 \in c2 THEN c2 \ {STREAM_CAP_V1} ELSE c2

\* strip_ml that keeps DATA_WITH_ML
strip_ml_Keeps(common_caps) == common_caps

\* lines 1519-1521
strip_ml(common_caps) ==
    IF STREAM_CAP_INTERPOLATED \notin common_caps
    THEN common_caps \ {STREAM_CAP_DATA_WITH_ML}
    ELSE common_caps

\* the conversion without the intersection with the local capabilities
convert_NoIntersection(v, globally_disabled, h, sender) ==
    strip_ml(strip_versions(version_to_capabilities(v)))

\* convert_stream_version_to_capabilities(version, host, sender); the version
\* is below 2^31, where the cast of strtoul's value to int32_t changes nothing
convert_stream_version_to_capabilities(v, globally_disabled, h, sender) ==
    LET caps == strip_versions(version_to_capabilities(v))
        common_caps ==
            caps \cap stream_our_capabilities(globally_disabled, h, sender)
    IN  strip_ml(common_caps)

\* ------------------------------------------------------------------------
\* One handshake: a peer advertises a version, the parent converts it and
\* replies, a child of this code converts the reply

\* the capabilities a disable mask of this model may hold: optional features
Disablable ==
    {STREAM_CAP_LZ4, STREAM_CAP_INTERPOLATED, STREAM_CAP_DATA_WITH_ML}

\* the hosts a child sender can run on
ChildHosts ==
    [globally_disabled : SUBSET Disablable, ml : BOOLEAN,
     disabled_capabilities : SUBSET {STREAM_CAP_LZ4}]

\* what a child of this code sends as ver
sender_advertises(h) ==
    word_of_capabilities(
        stream_our_capabilities(h.globally_disabled, h, TRUE))

\* the numbers any peer may send as ver: the legacy versions, numbers above
\* them without a known bit, and masks
ForeignAdvertisements ==
    {0, 1, 2, 3, 4, 5, 6, 7}
    \cup {word_of_capabilities(caps) :
            caps \in SUBSET {STREAM_CAP_V1, STREAM_CAP_V2, STREAM_CAP_VN,
                             STREAM_CAP_VCAPS, STREAM_CAP_INTERPOLATED,
                             STREAM_CAP_DATA_WITH_ML, "BIT25"}}

CapsInit ==
    /\ ChildQuiet
    /\ ParentQuiet
    /\ DestinationsQuiet
    /\ PointsQuiet
    /\ StopQuiet
    /\ ExtraQuiet
    /\ parentDisabled \in SUBSET Disablable
    /\ \/ /\ childHost \in ChildHosts
          /\ advertised = sender_advertises(childHost)
       \/ /\ childHost = NoHost
          /\ advertised \in ForeignAdvertisements
    /\ handshake = "advertised"
    /\ rpt_capabilities = STREAM_CAP_INVALID
    /\ reply = 0
    /\ query = << >>
    /\ parsed = 0

\* lines 996-997: the parent converts the ver parameter
ReceiverConverts ==
    /\ handshake = "advertised"
    /\ rpt_capabilities' =
           convert_stream_version_to_capabilities(advertised, parentDisabled,
                                                  NoHost, FALSE)
    /\ handshake' = "converted"
    /\ UNCHANGED <<advertised, parentDisabled, childHost, reply, query,
                   parsed>>
    /\ UNCHANGED besidesHandshake

\* the receiver thread answers with the mask it negotiated, or with a legacy
\* prompt when the mask has no VCAPS
ReceiverReplies ==
    /\ handshake = "converted"
    /\ IF STREAM_CAP_VCAPS \in rpt_capabilities
       THEN /\ reply' = word_of_capabilities(rpt_capabilities)
            /\ handshake' = "replied"
       ELSE /\ reply' = 0
            /\ handshake' = "legacy"
    /\ UNCHANGED <<advertised, parentDisabled, childHost, rpt_capabilities,
                   query, parsed>>
    /\ UNCHANGED besidesHandshake

\* the sender of a child of this code converts the parent's reply
SenderConverts ==
    /\ handshake = "replied"
    /\ advertised = sender_advertises(childHost)
    /\ capabilities' =
           convert_stream_version_to_capabilities(
               reply, childHost.globally_disabled, childHost, TRUE)
    /\ handshake' = "negotiated"
    /\ UNCHANGED <<hostFlags, senderThreads, shutdown>>
    /\ UNCHANGED <<chartVars, configVars, bufferVars, pc, localVars>>
    /\ UNCHANGED <<advertised, parentDisabled, childHost, rpt_capabilities,
                   reply, query, parsed>>
    /\ UNCHANGED <<parentVars, destVars, pointVars, stopVars, extraVars>>

CapsNext ==
    \/ ReceiverConverts
    \/ ReceiverReplies
    \/ SenderConverts

\* ------------------------------------------------------------------------
\* The parameters of one query string: lines 946-1034

\* a query string has at most this many parameters
MaxParams == 3

\* the parameters of the model: ver with a legacy version, with a later
\* legacy version and with a mask, NETDATA_PROTOCOL_VERSION, and a parameter
\* that says nothing of the version
Parameters ==
    {[name |-> "ver", value |-> v] :
        v \in {2, STREAM_OLD_VERSION_LZ4,
               word_of_capabilities({STREAM_CAP_VCAPS, STREAM_CAP_HLABELS,
                                     STREAM_CAP_LZ4})}}
    \cup {[name |-> "NETDATA_PROTOCOL_VERSION", value |-> 1],
          [name |-> "hostname", value |-> 0]}

Queries == UNION {[1..n -> Parameters] : n \in 0..MaxParams}

ParseInit ==
    /\ ChildQuiet
    /\ ParentQuiet
    /\ DestinationsQuiet
    /\ PointsQuiet
    /\ StopQuiet
    /\ ExtraQuiet
    /\ advertised = 0
    /\ parentDisabled \in {{}, {STREAM_CAP_LZ4}}
    /\ childHost = NoHost
    /\ handshake = "parsing"
    /\ rpt_capabilities = STREAM_CAP_INVALID
    /\ reply = 0
    /\ query \in Queries
    /\ parsed = 0

\* the parsing loop where every ver is converted
parse_parameter_LastVerWins(caps, p, globally_disabled) ==
    IF p.name = "ver"
    THEN convert_stream_version_to_capabilities(p.value, globally_disabled,
                                                NoHost, FALSE)
    ELSE IF p.name = "NETDATA_PROTOCOL_VERSION" /\ caps = STREAM_CAP_INVALID
    THEN convert_stream_version_to_capabilities(1, globally_disabled,
                                                NoHost, FALSE)
    ELSE caps

\* lines 996-997 and 1019-1020: rpt->capabilities after the parameter p
parse_parameter(caps, p, globally_disabled) ==
    IF p.name = "ver" /\ caps = STREAM_CAP_INVALID
    THEN convert_stream_version_to_capabilities(p.value, globally_disabled,
                                                NoHost, FALSE)
    ELSE IF p.name = "NETDATA_PROTOCOL_VERSION" /\ caps = STREAM_CAP_INVALID
    THEN convert_stream_version_to_capabilities(1, globally_disabled,
                                                NoHost, FALSE)
    ELSE caps

\* one turn of the loop of lines 946-1030
ParseParameter ==
    /\ handshake = "parsing"
    /\ parsed < Len(query)
    /\ parsed' = parsed + 1
    /\ rpt_capabilities' =
           parse_parameter(rpt_capabilities, query[parsed + 1],
                           parentDisabled)
    /\ UNCHANGED <<advertised, parentDisabled, childHost, handshake, reply,
                   query>>
    /\ UNCHANGED besidesHandshake

\* lines 1032-1034: no version is supplied, assume version 0
ParseEnd ==
    /\ handshake = "parsing"
    /\ parsed = Len(query)
    /\ rpt_capabilities' =
           IF rpt_capabilities = STREAM_CAP_INVALID
           THEN convert_stream_version_to_capabilities(0, parentDisabled,
                                                       NoHost, FALSE)
           ELSE rpt_capabilities
    /\ handshake' = "parsed"
    /\ UNCHANGED <<advertised, parentDisabled, childHost, reply, query,
                   parsed>>
    /\ UNCHANGED besidesHandshake

ParseNext ==
    \/ ParseParameter
    \/ ParseEnd

\* ------------------------------------------------------------------------
\* connect_to_one_of_destinations: lines 714-759

\* the host has this many destinations
MaxDestinations == 3
Destinations == 1..MaxDestinations

\* the list without the item d
remove_item(list, d) == SelectSeq(list, LAMBDA x : x # d)

\* a list whose connected destination goes to the head
move_to_end_ToHead(list, d) == <<d>> \o remove_item(list, d)

\* a list whose connected destination keeps its place
move_to_end_Stays(list, d) == list

\* lines 753-754: DOUBLE_LINKED_LIST_REMOVE_ITEM_UNSAFE and
\* DOUBLE_LINKED_LIST_APPEND_ITEM_UNSAFE
move_to_end(list, d) == Append(remove_item(list, d), d)

\* the clock of the model stops here
MaxRealtime == 2

\* the calls of the model try destinations this many times in all
MaxAttempts == 3

\* the values of host->sender->reconnect_delay
ReconnectDelays == {1, 2}

\* the attempts counted on the destinations of set ds
RECURSIVE attempts_of(_)
attempts_of(ds) ==
    IF ds = {} THEN 0
    ELSE LET d == CHOOSE x \in ds : TRUE
         IN  attempts[d] + attempts_of(ds \ {d})

\* line 728: the destinations with postpone_reconnection_until > now
postponed ==
    {d \in Destinations : postpone_reconnection_until[d] > realtime}

\* a loop that tries the postponed destinations too
candidates_All(list, skip) == list

\* the destinations the loop tries: those not postponed, in list order
candidates(list, skip) == SelectSeq(list, LAMBDA x : x \notin skip)

\* the position of the first destination of tries that accepts, or 0
RECURSIVE first_accepting(_, _, _)
first_accepting(tries, up, i) ==
    IF i > Len(tries) THEN 0
    ELSE IF tries[i] \in up THEN i
    ELSE first_accepting(tries, up, i + 1)

DestinationsInit ==
    /\ ChildQuiet
    /\ ParentQuiet
    /\ HandshakeQuiet
    /\ PointsQuiet
    /\ StopQuiet
    /\ ExtraQuiet
    /\ destinations = [i \in Destinations |-> i]
    /\ postpone_reconnection_until = [d \in Destinations |-> 0]
    /\ since = [d \in Destinations |-> 0]
    /\ attempts = [d \in Destinations |-> 0]
    /\ realtime = 0
    /\ probed = << >>
    /\ connected = 0
    /\ chosen = 0
    /\ accepting = {}

\* one call of connect_to_one_of_destinations, while the destinations of up
\* accept connections; the call takes less than a second of the clock
ConnectToOneOfDestinations(up) ==
    LET tries == candidates(destinations, postponed)
        i == first_accepting(tries, up, 1)
        tried == IF i = 0 THEN tries ELSE SubSeq(tries, 1, i)
        now_tried == {tried[k] : k \in 1..Len(tried)}
    IN  /\ attempts_of(Destinations) + Len(tried) <= MaxAttempts
        /\ since' = [d \in Destinations |->
                        IF d \in now_tried THEN realtime ELSE since[d]]
        /\ attempts' = [d \in Destinations |->
                           IF d \in now_tried THEN attempts[d] + 1
                           ELSE attempts[d]]
        /\ probed' = tried
        /\ accepting' = up
        /\ IF i = 0
           THEN /\ connected' = 0
                /\ chosen' = chosen
                /\ destinations' = destinations
           ELSE /\ connected' = tries[i]
                /\ chosen' = tries[i]
                /\ destinations' = move_to_end(destinations, tries[i])
        /\ UNCHANGED <<postpone_reconnection_until, realtime>>
        /\ UNCHANGED besidesDestinations

\* the sender postpones the reconnection to a destination the last call
\* tried in vain
PostponementChanges(d) ==
    /\ \E k \in 1..Len(probed) : probed[k] = d
    /\ d # connected
    /\ \E wait \in ReconnectDelays :
         postpone_reconnection_until' =
             [postpone_reconnection_until EXCEPT ![d] = realtime + wait]
    /\ postpone_reconnection_until' # postpone_reconnection_until
    /\ UNCHANGED <<destinations, since, attempts, realtime, probed, connected,
                   chosen, accepting>>
    /\ UNCHANGED besidesDestinations

\* a reset that postpones nothing
reset_postpone_time_Now(t, wait) == t

\* line 1337: now + wait, at time t
reset_postpone_time(t, wait) == t + wait

\* rrdpush_reset_destinations_postpone_time(host), lines 1333-1338, with
\* host->sender->reconnect_delay = wait
rrdpush_reset_destinations_postpone_time(wait) ==
    /\ postpone_reconnection_until' =
           [d \in Destinations |-> reset_postpone_time(realtime, wait)]
    /\ postpone_reconnection_until' # postpone_reconnection_until
    /\ UNCHANGED <<destinations, since, attempts, realtime, probed, connected,
                   chosen, accepting>>
    /\ UNCHANGED besidesDestinations

\* a second of the clock passes
RealtimePasses ==
    /\ realtime < MaxRealtime
    /\ realtime' = realtime + 1
    /\ UNCHANGED <<destinations, postpone_reconnection_until, since, attempts,
                   probed, connected, chosen, accepting>>
    /\ UNCHANGED besidesDestinations

DestinationsNext ==
    \/ \E up \in SUBSET Destinations : ConnectToOneOfDestinations(up)
    \/ \E d \in Destinations : PostponementChanges(d)
    \/ \E wait \in ReconnectDelays :
          rrdpush_reset_destinations_postpone_time(wait)
    \/ RealtimePasses

\* ------------------------------------------------------------------------
\* rrddim_push_metrics_v2 on one RRDSET_STREAM_BUFFER: lines 411-486

\* one collection writes at most this many points
MaxPoints == 4
\* the points end at a second from 0, the first second of the clock, to this
MaxTime == 3
Times == 0..MaxTime

\* (RRDSET_STREAM_BUFFER){ .wb = NULL, }
NoBuffer ==
    [open |-> FALSE, v2 |-> FALSE, wb |-> << >>,
     last_point_end_time_s |-> 0, begin_v2_added |-> FALSE]

PointsInit ==
    /\ ChildQuiet
    /\ ParentQuiet
    /\ HandshakeQuiet
    /\ DestinationsQuiet
    /\ StopQuiet
    /\ ExtraQuiet
    /\ rsb = NoBuffer
    /\ points = << >>
    /\ sent = << >>

\* lines 568-574: the buffer rrdset_push_metric_initialize returns for a
\* chart that is exposed upstream, on a connection with or without
\* INTERPOLATED
PushMetricInitialize(v2) ==
    /\ ~rsb.open
    /\ rsb' = [open |-> TRUE, v2 |-> v2, wb |-> << >>,
               last_point_end_time_s |-> 0, begin_v2_added |-> FALSE]
    /\ points' = << >>
    /\ sent' = << >>
    /\ UNCHANGED besidesPoints

\* a point opens a new BEGIN_V2 at every call
is_new_point_Always(last_point_end_time_s, point_end_time_s) == TRUE

\* line 420
is_new_point(last_point_end_time_s, point_end_time_s) ==
    last_point_end_time_s # point_end_time_s

\* rrddim_push_metrics_v2(rsb, rd, point_end_time_ut, n, flags); storable
\* says that n is a number and the storage number exists
RrddimPushMetricsV2(point_end_time_s, storable) ==
    /\ rsb.open
    /\ Len(points) < MaxPoints
    /\ IF ~rsb.v2 \/ ~storable
       THEN UNCHANGED <<rsb, points>>
       ELSE /\ rsb' =
                 IF is_new_point(rsb.last_point_end_time_s, point_end_time_s)
                 THEN [rsb EXCEPT
                          !.wb = @ \o (IF rsb.begin_v2_added
                                       THEN <<Rec("END_V2", 0)>>
                                       ELSE << >>)
                                   \o <<Rec("BEGIN_V2", point_end_time_s),
                                        Rec("SET_V2", 0)>>,
                          !.last_point_end_time_s = point_end_time_s,
                          !.begin_v2_added = TRUE]
                 ELSE [rsb EXCEPT !.wb = Append(@, Rec("SET_V2", 0))]
            /\ points' = Append(points, point_end_time_s)
    /\ UNCHANGED sent
    /\ UNCHANGED besidesPoints

\* a buffer whose last BEGIN_V2 is never closed
closes_group_Never(r) == FALSE

\* line 476
closes_group(r) == r.v2 /\ r.begin_v2_added

\* rrdset_push_metrics_finished(rsb, st): lines 472-486
PushMetricsFinished ==
    /\ rsb.open
    /\ sent' = rsb.wb \o (IF closes_group(rsb)
                          THEN <<Rec("END_V2", 0)>>
                          ELSE << >>)
    /\ rsb' = NoBuffer
    /\ UNCHANGED points
    /\ UNCHANGED besidesPoints

PointsNext ==
    \/ \E v2 \in BOOLEAN : PushMetricInitialize(v2)
    \/ \E t \in Times, storable \in BOOLEAN : RrddimPushMetricsV2(t, storable)
    \/ PushMetricsFinished

\* ------------------------------------------------------------------------
\* rrdpush_sender_thread_stop: lines 824-850, and the life of a sender thread

\* the threads that stop the sender of the host
Stoppers == {1, 2}
STREAM_HANDSHAKE_DISCONNECT_HOST_CLEANUP == "DISCONNECT_HOST_CLEANUP"
STREAM_HANDSHAKE_DISCONNECT_RECEIVER_LEFT == "DISCONNECT_RECEIVER_LEFT"
Reasons == {STREAM_HANDSHAKE_DISCONNECT_HOST_CLEANUP,
            STREAM_HANDSHAKE_DISCONNECT_RECEIVER_LEFT}

NotCalled == [pc |-> "idle", wait |-> FALSE, slept |-> FALSE]

StopInit ==
    /\ ChildQuiet
    /\ ParentQuiet
    /\ HandshakeQuiet
    /\ DestinationsQuiet
    /\ PointsQuiet
    /\ ExtraQuiet
    /\ tid = 0
    /\ exit_reason = "none"
    /\ stopper = [s \in Stoppers |-> NotCalled]

\* a collector's tick creates the sender thread: lines 855-870
SenderThreadCreated ==
    /\ RRDHOST_FLAG_RRDPUSH_SENDER_SPAWN \notin hostFlags
    /\ LET r == rrdpush_sender_thread_spawn(TRUE)
       IN  /\ hostFlags' = r.flags
           /\ senderThreads' = r.threads
    /\ UNCHANGED <<shutdown, stopVars>>
    /\ UNCHANGED besidesStop

\* the sender thread starts to run and publishes its thread id
SenderThreadStarts ==
    /\ senderThreads = 1
    /\ tid = 0
    /\ tid' = 1
    /\ UNCHANGED <<hostFlags, senderThreads, shutdown, exit_reason, stopper>>
    /\ UNCHANGED besidesStop

\* the sender thread ends, cancelled or not: its cleanup clears the tid and
\* the spawn flag
SenderThreadCleanup ==
    /\ senderThreads = 1
    /\ senderThreads' = 0
    /\ tid' = 0
    /\ hostFlags' = hostFlags \ {RRDHOST_FLAG_RRDPUSH_SENDER_SPAWN}
    /\ shutdown' = FALSE
    /\ UNCHANGED <<exit_reason, stopper>>
    /\ UNCHANGED besidesStop

\* lines 828-839: the first critical section of the call
StopSignal(s, reason, wait) ==
    /\ stopper[s].pc = "idle"
    /\ IF RRDHOST_FLAG_RRDPUSH_SENDER_SPAWN \in hostFlags
       THEN /\ shutdown' = TRUE
            /\ exit_reason' = reason
       ELSE UNCHANGED <<shutdown, exit_reason>>
    /\ stopper' = [stopper EXCEPT ![s] =
                       [pc |-> IF wait THEN "waiting" ELSE "returned",
                        wait |-> wait, slept |-> FALSE]]
    /\ UNCHANGED <<hostFlags, senderThreads, tid>>
    /\ UNCHANGED besidesStop

\* a loop that ends whatever the tid is
tid_is_clear_Always(t) == TRUE

\* line 843: the test of while(host->sender->tid)
tid_is_clear(t) == t = 0

\* lines 841-848: one test of the tid under the sender lock; the call sleeps
\* and tests again, or returns
StopWait(s) ==
    /\ stopper[s].pc = "waiting"
    /\ stopper' = [stopper EXCEPT ![s] =
                       IF tid_is_clear(tid)
                       THEN [@ EXCEPT !.pc = "returned"]
                       ELSE [@ EXCEPT !.slept = TRUE]]
    /\ UNCHANGED <<hostFlags, senderThreads, shutdown, tid, exit_reason>>
    /\ UNCHANGED besidesStop

StopNext ==
    \/ SenderThreadCreated
    \/ SenderThreadStarts
    \/ SenderThreadCleanup
    \/ \E s \in Stoppers, reason \in Reasons, wait \in BOOLEAN :
         StopSignal(s, reason, wait)
    \/ \E s \in Stoppers : StopWait(s)

\* ------------------------------------------------------------------------
\* The connection is lost and made again while the collector ticks

ReconnectInit ==
    /\ ChildInit
    /\ sendChartsMatching = [c \in Charts |-> TRUE]
    /\ ~mlStreaming
    /\ ParentQuiet
    /\ UnitQuiet

\* the sender thread loses its connection: it clears the connected and ready
\* flags, and no chart's replication counts as finished any more
SenderDisconnects ==
    /\ RRDHOST_FLAG_RRDPUSH_SENDER_CONNECTED \in hostFlags
    /\ hostFlags' = hostFlags \ {RRDHOST_FLAG_RRDPUSH_SENDER_CONNECTED,
                                 RRDHOST_FLAG_RRDPUSH_SENDER_READY_4_METRICS}
    /\ chartFlags' = [c \in Charts |->
                        chartFlags[c] \
                            {RRDSET_FLAG_SENDER_REPLICATION_FINISHED}]
    /\ UNCHANGED <<senderThreads, capabilities, shutdown, version, sentVersion,
                   replicatingCharts, configVars, bufferVars, pc, localVars>>
    /\ UNCHANGED <<parentVars, unitVars>>

\* the sender thread connects, the first time or again: under the sender
\* lock it wipes what is buffered, then every chart loses its
\* upstream-exposed marker and its replication state, and the host is
\* connected and ready for metrics
SenderReconnects ==
    /\ senderThreads >= 1
    /\ RRDHOST_FLAG_RRDPUSH_SENDER_CONNECTED \notin hostFlags
    /\ senderMutex = 0
    /\ hostFlags' = hostFlags \cup {RRDHOST_FLAG_RRDPUSH_SENDER_CONNECTED,
                                    RRDHOST_FLAG_RRDPUSH_SENDER_READY_4_METRICS}
    /\ capabilities' \in SUBSET {STREAM_CAP_REPLICATION, STREAM_CAP_INTERPOLATED}
    /\ stream' = << >>
    /\ sentVersion' = [c \in Charts |-> -1]
    /\ chartFlags' = [c \in Charts |->
                        chartFlags[c] \
                            {RRDSET_FLAG_SENDER_REPLICATION_FINISHED,
                             RRDSET_FLAG_SENDER_REPLICATION_IN_PROGRESS}]
    /\ replicatingCharts' = 0
    /\ UNCHANGED <<senderThreads, shutdown, version, configVars, senderMutex,
                   commits, pc, localVars>>
    /\ UNCHANGED <<parentVars, unitVars>>

ReconnectNext ==
    \/ \E t \in Collectors, c \in Charts : MetricInitialize(t, c)
    \/ \E t \in Collectors : SenderThreadSpawn(t)
    \/ \E t \in Collectors : CheckExposed(t)
    \/ \E t \in Collectors : GetFlags(t)
    \/ \E t \in Collectors : Classify(t)
    \/ \E t \in Collectors : DefinitionStart(t)
    \/ \E t \in Collectors : DefinitionInProgress(t)
    \/ \E t \in Collectors : DefinitionClearFinished(t)
    \/ \E t \in Collectors : DefinitionPlusOne(t)
    \/ \E t \in Collectors : DefinitionCommit(t)
    \/ \E t \in Collectors : DefinitionExposed(t)
    \/ \E t \in Collectors : ValuesStart(t)
    \/ \E t \in Collectors : rrdset_push_metrics_finished(t)
    \/ SenderReconnects
    \/ \E c \in Charts : SenderReplicationFinished(c)
    \/ SenderDisconnects

\* ------------------------------------------------------------------------
\* rrdpush_send_chart_definition(wb, st): the records of one definition,
\* lines 246-334

\* a chart has at most this many labels, dimensions, functions, variables
MaxItems == 2

\* n records of one verb
Records(verb, n) == [i \in 1..n |-> verb]

\* rrdpush_send_clabels(wb, st), lines 215-220
rrdpush_send_clabels(labels) ==
    IF labels > 0
    THEN Records("CLABEL", labels) \o <<"CLABEL_COMMIT">>
    ELSE << >>

\* the records written to wb, lines 246-319, by their verbs
chart_definition(caps, ch) ==
    <<"CHART">>
    \o (IF STREAM_CAP_CLABELS \in caps
        THEN rrdpush_send_clabels(ch.labels) ELSE << >>)
    \o Records("DIMENSION", ch.dimensions)
    \o (IF "FUNCTIONS" \in caps
        THEN Records("FUNCTION", ch.functions) ELSE << >>)
    \o Records("VARIABLE", ch.variables)
    \o (IF STREAM_CAP_REPLICATION \in caps
        THEN <<"CHART_DEFINITION_END">> ELSE << >>)

\* any chart, with any capabilities negotiated
DefinitionInit ==
    /\ ChildQuiet
    /\ ParentQuiet
    /\ HandshakeQuiet
    /\ DestinationsQuiet
    /\ PointsQuiet
    /\ StopQuiet
    /\ FieldsQuiet
    /\ SignalsQuiet
    /\ DiskspaceQuiet
    /\ defined \in [labels : 0..MaxItems, dimensions : 0..MaxItems,
                    functions : 0..MaxItems, variables : 0..MaxItems]
    /\ negotiated \in SUBSET {STREAM_CAP_CLABELS, "FUNCTIONS",
                              STREAM_CAP_REPLICATION}
    /\ definition = << >>

SendChartDefinition ==
    /\ definition = << >>
    /\ definition' = chart_definition(negotiated, defined)
    /\ UNCHANGED <<defined, negotiated>>
    /\ UNCHANGED besidesDefinition

DefinitionNext == SendChartDefinition

\* ------------------------------------------------------------------------
\* rrddim_push_metrics_v2: the fields of BEGIN_V2 and SET_V2 that may be "#",
\* lines 439-442 and 462-465

\* the significand of a NETDATA_DOUBLE of the model has this many bits (53
\* in the program)
Precision == 3

\* the largest last_collected_value of the model: past the first integer
\* that no NETDATA_DOUBLE holds
MaxCollected == 2 ^ (Precision + 1) + 1

\* the distance between the NETDATA_DOUBLEs around the integer i >= 0
RECURSIVE spacing(_)
spacing(i) == IF i < 2 ^ Precision THEN 1 ELSE 2 * spacing(i \div 2)

\* the NETDATA_DOUBLE nearest to the integer i >= 0, ties to the even one
nearest(i) ==
    LET u == spacing(i)
        q == i \div u
        r == i % u
    IN  IF 2 * r < u THEN q * u
        ELSE IF 2 * r > u THEN (q + 1) * u
        ELSE IF q % 2 = 0 THEN q * u
        ELSE (q + 1) * u

\* (NETDATA_DOUBLE)i, line 462: a number with a whole part and maybe a half
to_double(i) ==
    [whole |-> IF i >= 0 THEN nearest(i) ELSE 0 - nearest(0 - i),
     half |-> FALSE]

\* buffer_print_uint64_encoded, buffer_print_netdata_double_encoded: the
\* text of a number, one for each number
encoded(x) == [text |-> x]

\* the field that stands for "the same as the field before"
Hash == [hash |-> TRUE]

\* lines 439-442: the wall-clock field of BEGIN_V2
begin_v2_wall_clock_field(point_end_time_s, wall_clock_time) ==
    IF point_end_time_s = wall_clock_time
    THEN Hash
    ELSE encoded(wall_clock_time)

\* a SET_V2 whose value is always spelled out
set_v2_value_field_Spelled(last_collected_value, n) == encoded(n)

\* lines 462-465: the value field of SET_V2
set_v2_value_field(last_collected_value, n) ==
    IF to_double(last_collected_value) = n
    THEN Hash
    ELSE encoded(n)

\* the values a dimension may have collected, and the numbers it may store
Collected == (0 - 1)..MaxCollected
Doubles ==
    {to_double(i) : i \in Collected}
    \cup {[whole |-> i, half |-> TRUE] : i \in {0, 1}}

FieldsInit ==
    /\ ChildQuiet
    /\ ParentQuiet
    /\ HandshakeQuiet
    /\ DestinationsQuiet
    /\ PointsQuiet
    /\ StopQuiet
    /\ DefinitionQuiet
    /\ SignalsQuiet
    /\ DiskspaceQuiet
    /\ point \in [point_end_time_s : Times, wall_clock_time : Times,
                  last_collected_value : Collected, n : Doubles]
    /\ fields = << >>

\* the first point of a second: BEGIN_V2 and SET_V2 are written
WriteFields ==
    /\ fields = << >>
    /\ fields' =
         <<begin_v2_wall_clock_field(point.point_end_time_s,
                                     point.wall_clock_time),
           set_v2_value_field(point.last_collected_value, point.n)>>
    /\ UNCHANGED point
    /\ UNCHANGED besidesFields

FieldsNext == WriteFields

\* ------------------------------------------------------------------------
\* src/daemon/signals.c: signal_handler and signals_handle

\* signals_waiting[], lines 21-34, without the terminator
signals_waiting ==
    <<[name |-> "SIGPIPE", action |-> "NETDATA_SIGNAL_IGNORE"],
      [name |-> "SIGINT", action |-> "NETDATA_SIGNAL_EXIT_CLEANLY"],
      [name |-> "SIGQUIT", action |-> "NETDATA_SIGNAL_EXIT_CLEANLY"],
      [name |-> "SIGTERM", action |-> "NETDATA_SIGNAL_EXIT_CLEANLY"],
      [name |-> "SIGHUP", action |-> "NETDATA_SIGNAL_REOPEN_LOGS"],
      [name |-> "SIGUSR1", action |-> "NETDATA_SIGNAL_SAVE_DATABASE"],
      [name |-> "SIGUSR2", action |-> "NETDATA_SIGNAL_RELOAD_HEALTH"],
      [name |-> "SIGBUS", action |-> "NETDATA_SIGNAL_FATAL"],
      [name |-> "SIGCHLD", action |-> "NETDATA_SIGNAL_CHILD"]>>

Entries == DOMAIN signals_waiting

\* signals recorded and not yet handle_found by the scan, at most
MaxPending == 2

RECURSIVE pending(_)
\* the signals recorded in the entries 1..i
pending(i) == IF i = 0 THEN 0 ELSE count[i] + pending(i - 1)

\* signals_init, lines 83-95: the signals that run signal_handler; the
\* others are discarded by SIG_IGN
Caught == {i \in Entries : signals_waiting[i].action # "NETDATA_SIGNAL_IGNORE"}

\* the actions that end the process, lines 226-236
Ending == {"NETDATA_SIGNAL_EXIT_CLEANLY", "NETDATA_SIGNAL_FATAL"}

SignalsInit ==
    /\ ChildQuiet
    /\ ParentQuiet
    /\ HandshakeQuiet
    /\ DestinationsQuiet
    /\ PointsQuiet
    /\ StopQuiet
    /\ DefinitionQuiet
    /\ FieldsQuiet
    /\ DiskspaceQuiet
    /\ SignalsQuiet

\* signals_handle is called and reaches pause(), line 187
EntersPause ==
    /\ handle_pc = "start"
    /\ handle_pc' = "pause"
    /\ UNCHANGED <<count, handle_i, handle_found, last_action>>
    /\ UNCHANGED besidesSignals

\* signal_handler(signo), lines 36-55, run by the main thread wherever the
\* signal finds it; a pause() it interrupts returns -1 with EINTR and the
\* scan begins, lines 192-198
signal_handler(i) ==
    /\ handle_pc # "exited"
    /\ pending(Len(signals_waiting)) < MaxPending
    /\ count' = [count EXCEPT ![i] = @ + 1]
    /\ IF handle_pc = "pause"
       THEN /\ handle_pc' = "test"
            /\ handle_i' = 1
            /\ handle_found' = 0
       ELSE UNCHANGED <<handle_pc, handle_i, handle_found>>
    /\ UNCHANGED last_action
    /\ UNCHANGED besidesSignals

\* line 198: the end of the list; another pass while found, else pause()
EndOfList ==
    /\ handle_pc = "test"
    /\ handle_i > Len(signals_waiting)
    /\ handle_pc' = IF handle_found = 1 THEN "test" ELSE "pause"
    /\ handle_i' = 1
    /\ handle_found' = 0
    /\ UNCHANGED <<count, last_action>>
    /\ UNCHANGED besidesSignals

\* line 199: if(signals_waiting[i].count)
TestCount ==
    /\ handle_pc = "test"
    /\ handle_i <= Len(signals_waiting)
    /\ IF count[handle_i] # 0
       THEN /\ handle_pc' = "reset"
            /\ UNCHANGED handle_i
       ELSE /\ handle_i' = handle_i + 1
            /\ UNCHANGED handle_pc
    /\ UNCHANGED <<count, handle_found, last_action>>
    /\ UNCHANGED besidesSignals

\* lines 200-201: found = 1; signals_waiting[i].count = 0
ResetCount ==
    /\ handle_pc = "reset"
    /\ handle_found' = 1
    /\ count' = [count EXCEPT ![handle_i] = 0]
    /\ handle_pc' = "act"
    /\ UNCHANGED <<handle_i, last_action>>
    /\ UNCHANGED besidesSignals

\* lines 204-245: the action of the entry; exit(0) and fatal() end the process
ExecuteAction ==
    /\ handle_pc = "act"
    /\ last_action' = signals_waiting[handle_i].action
    /\ IF signals_waiting[handle_i].action \in Ending
       THEN /\ handle_pc' = "exited"
            /\ UNCHANGED handle_i
       ELSE /\ handle_pc' = "test"
            /\ handle_i' = handle_i + 1
    /\ UNCHANGED <<count, handle_found>>
    /\ UNCHANGED besidesSignals

\* the steps of signals_handle
signals_handle ==
    \/ EntersPause
    \/ EndOfList
    \/ TestCount
    \/ ResetCount
    \/ ExecuteAction

SignalsNext ==
    \/ \E i \in Caught : signal_handler(i)
    \/ EntersPause
    \/ EndOfList
    \/ TestCount
    \/ ResetCount
    \/ ExecuteAction

\* ------------------------------------------------------------------------
\* src/collectors/diskspace.plugin/plugin_diskspace.c: the main loop, the
\* slow worker and mount_point_cleanup

\* m->collected is counted up to this (the program tests it against 0 only)
MaxRendered == 1

\* mount_point_cleanup(name, entry, slow), lines 71-107: the entry it leaves
mount_point_cleanup(mp, slow) ==
    IF ~mp.known THEN mp
    ELSE IF slow # mp.slow THEN mp
    ELSE IF mp.updated # 0 THEN [mp EXCEPT !.updated = 0]
    ELSE IF cleanup_mount_points # 0 /\ mp.collected # 0
    THEN [mp EXCEPT !.collected = 0, !.updated = 0, !.st_space = "NULL"]
    ELSE mp

\* rrdset_obsolete_and_pointer_null: the call above marked the charts of the
\* entry obsolete
marks_obsolete(mp, slow) ==
    mp.st_space # "NULL" /\ mount_point_cleanup(mp, slow).st_space = "NULL"

\* calculate_values_and_show_charts, lines 175-304: the charts are created
\* if need be and the values set
calculate_values_and_show_charts(mp) ==
    [mp EXCEPT !.st_space = "chart",
               !.collected = IF @ < MaxRendered THEN @ + 1 ELSE @]

\* do_disk_space_stats(mi, update_every), lines 436-488, for a mount point
\* of /proc/self/mountinfo: failed: statvfs() failed; late: it took longer
\* than slow_timeout
do_disk_space_stats(mp, failed, late) ==
    LET m == IF mp.known THEN mp ELSE [NoEntry EXCEPT !.known = TRUE]
    IN  IF m.slow # 0 THEN m
        ELSE IF failed THEN [m EXCEPT !.updated = 1]
        ELSE calculate_values_and_show_charts(
                 [m EXCEPT !.updated = 1, !.slow = IF late THEN 1 ELSE 0])

\* do_slow_disk_space_stats(mi, update_every), lines 491-512
do_slow_disk_space_stats(mp, failed) ==
    IF failed THEN [mp EXCEPT !.updated = 1]
    ELSE calculate_values_and_show_charts([mp EXCEPT !.updated = 1])

DiskspaceInit ==
    /\ ChildQuiet
    /\ ParentQuiet
    /\ HandshakeQuiet
    /\ DestinationsQuiet
    /\ PointsQuiet
    /\ StopQuiet
    /\ DefinitionQuiet
    /\ FieldsQuiet
    /\ SignalsQuiet
    /\ cleanup_mount_points \in {0, 1}
    /\ mounted \in SUBSET MountPoints
    /\ dict_mountpoints = [m \in MountPoints |-> NoEntry]
    /\ obsolete = {}
    /\ slow_mountinfo_tmp_root = {}
    /\ slow_mountinfo_root = {}
    /\ main_pc = "stats"
    /\ slow_pc = "swap"

\* a disk is mounted
Mount(m) ==
    /\ m \notin mounted
    /\ mounted' = mounted \cup {m}
    /\ UNCHANGED <<cleanup_mount_points, dict_mountpoints, obsolete,
                   slow_mountinfo_tmp_root, slow_mountinfo_root, main_pc,
                   slow_pc>>
    /\ UNCHANGED besidesDiskspace

\* a disk is unmounted
Unmount(m) ==
    /\ m \in mounted
    /\ mounted' = mounted \ {m}
    /\ UNCHANGED <<cleanup_mount_points, dict_mountpoints, obsolete,
                   slow_mountinfo_tmp_root, slow_mountinfo_root, main_pc,
                   slow_pc>>
    /\ UNCHANGED besidesDiskspace

\* the main loop, lines 913-931, under slow_mountinfo_mutex: the list for the
\* worker is emptied and do_disk_space_stats runs for every mount point of
\* mountinfo; the slow ones go to the list
MainStats ==
    /\ main_pc = "stats"
    /\ \E failed \in SUBSET mounted, late \in SUBSET mounted :
         /\ dict_mountpoints' =
              [m \in MountPoints |->
                 IF m \in mounted
                 THEN do_disk_space_stats(dict_mountpoints[m], m \in failed,
                                          m \in late)
                 ELSE dict_mountpoints[m]]
         /\ obsolete' =
              obsolete \ {m \in mounted :
                             /\ dict_mountpoints[m].slow = 0
                             /\ m \notin failed}
    /\ slow_mountinfo_tmp_root' =
         {m \in mounted : dict_mountpoints[m].slow # 0}
    /\ main_pc' = "cleanup"
    /\ UNCHANGED <<cleanup_mount_points, mounted, slow_mountinfo_root, slow_pc>>
    /\ UNCHANGED besidesDiskspace

\* the main loop, lines 935-938: mount_point_cleanup_cb for every entry of
\* the dictionary
MainCleanup ==
    /\ main_pc = "cleanup"
    /\ dict_mountpoints' =
         [m \in MountPoints |-> mount_point_cleanup(dict_mountpoints[m], 0)]
    /\ obsolete' =
         obsolete \cup {m \in MountPoints :
                           marks_obsolete(dict_mountpoints[m], 0)}
    /\ main_pc' = "stats"
    /\ UNCHANGED <<cleanup_mount_points, mounted, slow_mountinfo_tmp_root,
                   slow_mountinfo_root, slow_pc>>
    /\ UNCHANGED besidesDiskspace

\* the slow worker, lines 572-576, under slow_mountinfo_mutex: it takes the
\* list of the main loop
SlowSwap ==
    /\ slow_pc = "swap"
    /\ slow_mountinfo_root' = slow_mountinfo_tmp_root
    /\ slow_mountinfo_tmp_root' = {}
    /\ slow_pc' = "stats"
    /\ UNCHANGED <<cleanup_mount_points, mounted, dict_mountpoints, obsolete,
                   main_pc>>
    /\ UNCHANGED besidesDiskspace

\* the slow worker, lines 578-583: do_slow_disk_space_stats for every mount
\* point of its list
SlowStats ==
    /\ slow_pc = "stats"
    /\ \E failed \in SUBSET slow_mountinfo_root :
         /\ dict_mountpoints' =
              [m \in MountPoints |->
                 IF m \in slow_mountinfo_root
                 THEN do_slow_disk_space_stats(dict_mountpoints[m],
                                               m \in failed)
                 ELSE dict_mountpoints[m]]
         /\ obsolete' = obsolete \ (slow_mountinfo_root \ failed)
    /\ slow_pc' = "cleanup"
    /\ UNCHANGED <<cleanup_mount_points, mounted, slow_mountinfo_tmp_root,
                   slow_mountinfo_root, main_pc>>
    /\ UNCHANGED besidesDiskspace

\* the slow worker, lines 589-594: mount_point_cleanup for every mount point
\* of its list
SlowCleanup ==
    /\ slow_pc = "cleanup"
    /\ dict_mountpoints' =
         [m \in MountPoints |->
            IF m \in slow_mountinfo_root
            THEN mount_point_cleanup(dict_mountpoints[m], 1)
            ELSE dict_mountpoints[m]]
    /\ obsolete' =
         obsolete \cup {m \in slow_mountinfo_root :
                           marks_obsolete(dict_mountpoints[m], 1)}
    /\ slow_pc' = "swap"
    /\ UNCHANGED <<cleanup_mount_points, mounted, slow_mountinfo_tmp_root,
                   slow_mountinfo_root, main_pc>>
    /\ UNCHANGED besidesDiskspace

\* the steps of the two threads of the plugin
diskspace_main == MainStats \/ MainCleanup
diskspace_slow_worker == SlowSwap \/ SlowStats \/ SlowCleanup

DiskspaceNext ==
    \/ \E m \in MountPoints : Mount(m)
    \/ \E m \in MountPoints : Unmount(m)
    \/ MainStats
    \/ MainCleanup
    \/ SlowSwap
    \/ SlowStats
    \/ SlowCleanup

\* ------------------------------------------------------------------------
\* Specifications

Init == ChildInit /\ ParentQuiet /\ UnitQuiet

Next == ChildNext

Spec == Init /\ [][Next]_vars

SpawnStart == SpawnInit /\ ParentQuiet /\ UnitQuiet

SpecSpawn == SpawnStart /\ [][SpawnNext]_vars

SpecRecv == RecvInit /\ [][RecvNext]_vars

SpecValid == ValidInit /\ [][ValidNext]_vars

SpecCaps == CapsInit /\ [][CapsNext]_vars

SpecParse == ParseInit /\ [][ParseNext]_vars

SpecDestinations == DestinationsInit /\ [][DestinationsNext]_vars

SpecPoints == PointsInit /\ [][PointsNext]_vars

SpecReconnect == ReconnectInit /\ [][ReconnectNext]_vars

SpecDefinition == DefinitionInit /\ [][DefinitionNext]_vars

SpecFields == FieldsInit /\ [][FieldsNext]_vars

\* the main thread goes on running signals_handle; no signal has to arrive
SpecSignals == SignalsInit /\ [][SignalsNext]_vars /\ WF_vars(signals_handle)

\* both threads of the plugin go on with their loops
SpecDiskspace ==
    /\ DiskspaceInit
    /\ [][DiskspaceNext]_vars
    /\ WF_vars(diskspace_main)
    /\ WF_vars(diskspace_slow_worker)

\* a caller that waits goes on testing the tid
SpecStop ==
    /\ StopInit
    /\ [][StopNext]_vars
    /\ \A s \in Stoppers : WF_vars(StopWait(s))

\* ------------------------------------------------------------------------
\* Properties of the child side

C2_NoBufferWhileInProgress ==
    \A t \in Collectors :
        pc[t] = "collecting"
            => RRDSET_FLAG_SENDER_REPLICATION_IN_PROGRESS \notin chartFlags[st[t]]

\* C2: a tick was handed a writable buffer for a chart in replication
C2_Witness ==
    \E t \in Collectors :
        /\ pc[t] = "collecting"
        /\ RRDSET_FLAG_SENDER_REPLICATION_IN_PROGRESS \in chartFlags[st[t]]

\* C3: a chart with SENDER_REPLICATION_IN_PROGRESS set does not have
\* SENDER_REPLICATION_FINISHED set, in every state any thread can observe
C3_InProgressImpliesNotFinished ==
    \A c \in Charts :
        RRDSET_FLAG_SENDER_REPLICATION_IN_PROGRESS \in chartFlags[c]
            => RRDSET_FLAG_SENDER_REPLICATION_FINISHED \notin chartFlags[c]

\* C3: a thread is between lines 322 and 323 of a chart that had finished
\* replication
C3_Witness ==
    \E t \in Threads :
        /\ pc[t] = "def_finished"
        /\ RRDSET_FLAG_SENDER_REPLICATION_FINISHED \in chartFlags[st[t]]

Decision(flags) == flags \cap {RRDSET_FLAG_UPSTREAM_SEND, RRDSET_FLAG_UPSTREAM_IGNORE}

C5_OneSender ==
    /\ senderThreads \in {0, 1}
    /\ (RRDHOST_FLAG_RRDPUSH_SENDER_SPAWN \in hostFlags) <=> (senderThreads = 1)

\* C5: the sender thread exists while another collector, which saw the flag
\* unset, is about to call rrdpush_sender_thread_spawn
C5_Witness ==
    /\ senderThreads = 1
    /\ \E t \in SpawnThreads :
         /\ pc[t] = "spawn"
         /\ RRDHOST_FLAG_RRDPUSH_SENDER_SPAWN \notin host_flags[t]

\* ------------------------------------------------------------------------
\* Properties of the parent side

\* C6: at most one receiver is handed off for the host at a time: the
\* receiver threads created for it and not gone, attached or not, are at
\* most one
C6_OneReceiverHandedOff ==
    workers + (IF receiver # NoReceiver THEN 1 ELSE 0) <= 1

\* C6: two requests with the machine_guid of the child were both answered 200
\* with a receiver thread each, and neither thread has attached yet
C6_Witness ==
    /\ workers = 2
    /\ \A w \in WebThreads : response[w] = HTTP_RESP_OK /\ thread_created[w]

\* C7: a request that finds the live host's receiver less than 30 s old is
\* answered 409, without take-over, without a receiver thread, and without a
\* stop signal to the receiver
C7_FreshReceiverConflict ==
    [][\A w \in WebThreads :
         (/\ rpc[w] = "duplicate" /\ rpc'[w] # "duplicate"
          /\ hostX = "live" /\ receiver # NoReceiver
          /\ now - receiver.last_msg_t < 30)
         => (/\ response'[w] = HTTP_RESP_CONFLICT
             /\ ~takeover'[w] /\ ~thread_created'[w] /\ ~stop_signalled'[w]
             /\ receiver' = receiver /\ workers' = workers)]_vars

\* C7: a request was answered 409 while the receiver, fresh, stays attached
\* and unsignalled
C7_Witness ==
    \E w \in WebThreads :
        /\ response[w] = HTTP_RESP_CONFLICT /\ ~stop_signalled[w]
        /\ hostX = "live" /\ receiver # NoReceiver /\ ~receiver.shutdown
        /\ now - receiver.last_msg_t < 30

\* C8: with a rate of 30 the request that reaches the limiter before any
\* connection was accepted passes it, and a request at most 5 s after the
\* last accepted one is answered 503
C8_FirstPassesSecondRejected ==
    [][\A w \in WebThreads :
         (rpc[w] = "limiter" /\ rpc'[w] # "limiter" /\ streamingRate = 30)
         => IF last_stream_accepted_t = 0
            THEN rpc'[w] = "duplicate"
            ELSE (rnow[w] - last_stream_accepted_t \in 0..5
                    => response'[w] = HTTP_RESP_SERVICE_UNAVAILABLE)]_vars

\* C8: the first request to reach the limiter was answered 503
C8_Witness ==
    \E w \in WebThreads :
        /\ response[w] = HTTP_RESP_SERVICE_UNAVAILABLE
        /\ serviceRunning /\ streamingRate = 30
        /\ last_stream_accepted_t = 5 /\ now = 5

\* C9: a request passes the limiter only at least streamingRate seconds after
\* the last accepted one, and a request the limiter rejects is answered 503
\* and leaves last_stream_accepted_t unchanged
C9_LimiterSpacingAndRejection ==
    [][\A w \in WebThreads :
         (rpc[w] = "limiter" /\ rpc'[w] # "limiter" /\ streamingRate > 0)
         => IF rpc'[w] = "duplicate"
            THEN \/ last_stream_accepted_t = 0
                 \/ rnow[w] - last_stream_accepted_t >= streamingRate
            ELSE /\ response'[w] = HTTP_RESP_SERVICE_UNAVAILABLE
                 /\ last_stream_accepted_t' = last_stream_accepted_t]_vars

\* C9: a request passed the limiter, 30 s after a rejected one
C9_Witness ==
    \E w \in WebThreads :
        /\ rpc[w] = "duplicate" /\ streamingRate = 30
        /\ last_stream_accepted_t = 35

\* the requests C10 lists
C10_Listed(r) ==
    \/ r.key \in {NULLSTR, ""}
    \/ r.hostname \in {NULLSTR, ""}
    \/ r.machine_guid \in {NULLSTR, ""}
    \/ r.key \notin {ApiKey, ChildGuid, LocalhostGuid}
    \/ r.machine_guid \notin {ApiKey, ChildGuid, LocalhostGuid}
    \/ r.key_type \notin {UNSET, "api"}
    \/ r.key_enabled # "yes"
    \/ r.machine_type \notin {UNSET, "machine"}
    \/ r.machine_enabled = "no"
    \/ r.key_allow_from = "192.168.*"
    \/ r.machine_allow_from = "192.168.*"

\* C10: while the service runs, a request with a missing or empty key,
\* hostname or machine_guid, a key or machine_guid that is no UUID, a key
\* section not of type api or not enabled, a machine section not of type
\* machine or disabled, or an allow-from pattern that does not match the
\* client, is answered 401 without take-over and without a receiver thread
C10_InvalidRequestUnauthorized ==
    \A w \in WebThreads :
        (/\ serviceRunning
         /\ req[w] # NoRequest /\ rpc[w] # "arrived"
         /\ C10_Listed(req[w]))
        => (/\ response[w] = HTTP_RESP_UNAUTHORIZED
            /\ ~takeover[w] /\ ~thread_created[w])

\* C10: a request with a valid key that stream.conf does not enable was
\* answered 401
C10_Witness ==
    \E w \in WebThreads :
        /\ serviceRunning
        /\ req[w] = [GoodRequest EXCEPT !.key_enabled = UNSET]
        /\ response[w] = HTTP_RESP_UNAUTHORIZED

\* C11: a request that passes the validation and carries the machine_guid of
\* localhost is answered 401; no receiver thread is created, no host is
\* created, the rate limiter and the host's receiver are not touched
C11_LocalhostUnauthorized ==
    [][\A w \in WebThreads :
         (/\ rpc[w] = "arrived" /\ rpc'[w] # "arrived"
          /\ serviceRunning
          /\ rrdpush_receiver_validate(req[w]) = "ok"
          /\ req[w].machine_guid = LocalhostGuid)
         => (/\ response'[w] = HTTP_RESP_UNAUTHORIZED
             /\ ~thread_created'[w]
             /\ workers' = workers /\ hostX' = hostX /\ receiver' = receiver
             /\ last_stream_accepted_t' = last_stream_accepted_t)]_vars

\* C11: a valid request with the machine_guid of localhost was answered
C11_Witness ==
    \E w \in WebThreads :
        /\ rpc[w] = "idle" /\ response[w] # 0
        /\ req[w] # NoRequest /\ req[w].machine_guid = LocalhostGuid
        /\ response[w] # HTTP_RESP_SERVICE_UNAVAILABLE

\* C12: the socket of a request is taken over exactly when the request is
\* answered 200 with a receiver thread created; on 401, 409, 503 and 500 it
\* is left to the HTTP layer
C12_TakeoverOnlyOnAcceptance ==
    \A w \in WebThreads :
        response[w] # 0
            => (takeover[w] <=> (response[w] = HTTP_RESP_OK /\ thread_created[w]))

\* C12: a request was answered 500 after its socket was taken over
C12_Witness ==
    \E w \in WebThreads :
        response[w] = HTTP_RESP_INTERNAL_SERVER_ERROR /\ takeover[w]

\* ------------------------------------------------------------------------
\* Properties of the capability handshake

\* the capabilities the parent supports, and those the child sender supports
ParentSupport == stream_our_capabilities(parentDisabled, NoHost, FALSE)
ChildSupport ==
    stream_our_capabilities(childHost.globally_disabled, childHost, TRUE)
VersionBits ==
    {STREAM_CAP_V1, STREAM_CAP_V2, STREAM_CAP_VN, STREAM_CAP_VCAPS}
\* intersect first, strip afterwards
ReduceAfterIntersection(caps) == strip_ml(strip_versions(caps))

\* C13: after the handshake of a child and a parent of this code, the mask the
\* parent converted from the child's advertisement equals the mask the child
\* converted from the parent's reply, and both are the reduction of what the
\* child advertised, the parent supports and the child supports.
C13_SameMask ==
    handshake = "negotiated" =>
        /\ rpt_capabilities = capabilities
        /\ capabilities =
               ReduceAfterIntersection(capabilities_of_word(advertised)
                                       \cap ParentSupport \cap ChildSupport)

C13_Witness ==
    /\ handshake = "negotiated"
    /\ STREAM_CAP_LZ4 \in parentDisabled
    /\ STREAM_CAP_INTERPOLATED \in childHost.globally_disabled
    /\ STREAM_CAP_VCAPS \in capabilities

\* C14: for every advertised number the mask of the parent obeys the
\* reduction rules (VCAPS excludes V1, V2 and VN; VN excludes V1 and V2; V2
\* excludes V1) and is what intersecting with the supported capabilities
\* first and stripping afterwards gives.
C14_ReductionRules ==
    handshake # "advertised" =>
        /\ STREAM_CAP_VCAPS \in rpt_capabilities =>
               rpt_capabilities \cap VersionBits = {STREAM_CAP_VCAPS}
        /\ STREAM_CAP_VN \in rpt_capabilities =>
               rpt_capabilities \cap VersionBits = {STREAM_CAP_VN}
        /\ STREAM_CAP_V2 \in rpt_capabilities =>
               STREAM_CAP_V1 \notin rpt_capabilities
        /\ rpt_capabilities =
               ReduceAfterIntersection(version_to_capabilities(advertised)
                                       \cap ParentSupport)

C14_Witness ==
    /\ handshake = "converted"
    /\ {STREAM_CAP_V1, STREAM_CAP_V2, STREAM_CAP_VN}
           \subseteq capabilities_of_word(advertised)
    /\ STREAM_CAP_VCAPS \notin capabilities_of_word(advertised)
    /\ rpt_capabilities \cap VersionBits = {STREAM_CAP_VN}

\* the advertisement of scenario S4 reaches a parent without INTERPOLATED
S4 ==
    /\ {STREAM_CAP_VCAPS, STREAM_CAP_INTERPOLATED, STREAM_CAP_DATA_WITH_ML}
           \subseteq capabilities_of_word(advertised)
    /\ advertised > STREAM_OLD_VERSION_LZ4
    /\ STREAM_CAP_INTERPOLATED \in parentDisabled

\* C15: a negotiated mask with DATA_WITH_ML has INTERPOLATED; when the
\* advertisement has VCAPS, INTERPOLATED and DATA_WITH_ML and the parent lacks
\* INTERPOLATED, the masks of both sides have neither, and the sender's
\* buffer is framed as v1.
C15_MlNeedsInterpolated ==
    /\ handshake # "advertised" =>
           /\ STREAM_CAP_DATA_WITH_ML \in rpt_capabilities =>
                  STREAM_CAP_INTERPOLATED \in rpt_capabilities
           /\ S4 => rpt_capabilities \cap {STREAM_CAP_INTERPOLATED,
                                           STREAM_CAP_DATA_WITH_ML} = {}
    /\ handshake = "negotiated" =>
           /\ STREAM_CAP_DATA_WITH_ML \in capabilities =>
                  STREAM_CAP_INTERPOLATED \in capabilities
           /\ S4 => /\ capabilities \cap {STREAM_CAP_INTERPOLATED,
                                          STREAM_CAP_DATA_WITH_ML} = {}
                    /\ ~stream_has_capability(STREAM_CAP_INTERPOLATED)
                    /\ \A c \in Charts : ValueRecords(c)[1] = Rec("BEGIN", c)

C15_Witness ==
    /\ handshake = "negotiated"
    /\ S4
    /\ STREAM_CAP_VCAPS \in capabilities

\* C16: an advertised number above the legacy versions that has none of the
\* bits V1, V2, VN, VCAPS, or no bit the parent supports, is converted to the
\* capability set V1.
C16_UnrecognizedYieldsV1 ==
    (/\ handshake # "advertised"
     /\ advertised > STREAM_OLD_VERSION_LZ4
     /\ \/ capabilities_of_word(advertised) \cap VersionBits = {}
        \/ capabilities_of_word(advertised) \cap ParentSupport = {})
    => rpt_capabilities = {STREAM_CAP_V1}

\* ------------------------------------------------------------------------
\* Properties of the parsing of the query string

\* the positions of the parameters named n in the query
Positions(n) == {i \in 1..Len(query) : query[i].name = n}
\* the conversion of the first ver of the query
FirstVer ==
    LET i == CHOOSE j \in Positions("ver") :
                 \A k \in Positions("ver") : j <= k
    IN  convert_stream_version_to_capabilities(query[i].value,
                                               parentDisabled, NoHost, FALSE)

\* C17 as stated: after the parsing the capability set is not INVALID; it is
\* V1 when the query has no ver, and else the conversion of its first ver.
C17_FirstVerWins ==
    handshake = "parsed" =>
        /\ rpt_capabilities # STREAM_CAP_INVALID
        /\ Positions("ver") = {} => rpt_capabilities = {STREAM_CAP_V1}
        /\ Positions("ver") # {} => rpt_capabilities = FirstVer

\* C17: after the parsing the capability set is not INVALID; it is V1 when
\* the query has no ver, and the conversion of its first ver when the query
\* has a ver and no NETDATA_PROTOCOL_VERSION.
C17_FirstVerWinsAlone ==
    handshake = "parsed" =>
        /\ rpt_capabilities # STREAM_CAP_INVALID
        /\ Positions("ver") = {} => rpt_capabilities = {STREAM_CAP_V1}
        /\ (Positions("ver") # {}
            /\ Positions("NETDATA_PROTOCOL_VERSION") = {})
           => rpt_capabilities = FirstVer

C17_Witness ==
    /\ handshake = "parsed"
    /\ Cardinality(Positions("ver")) >= 2
    /\ Positions("NETDATA_PROTOCOL_VERSION") = {}
    /\ query[1].name = "ver"
    /\ query[2].name = "ver"
    /\ query[1].value # query[2].value
    /\ STREAM_CAP_VCAPS \in rpt_capabilities

\* C18: after the parsing of a query with a NETDATA_PROTOCOL_VERSION
\* parameter the capability set is the conversion of version 1, wherever a
\* ver parameter stands.
C18_ProtocolVersionYieldsV1 ==
    (handshake = "parsed" /\ Positions("NETDATA_PROTOCOL_VERSION") # {})
    => rpt_capabilities =
           convert_stream_version_to_capabilities(1, parentDisabled, NoHost,
                                                  FALSE)

C18_Witness ==
    /\ handshake = "parsed"
    /\ Positions("NETDATA_PROTOCOL_VERSION") = {2}
    /\ Positions("ver") = {1}
    /\ rpt_capabilities # {STREAM_CAP_V1}

\* ------------------------------------------------------------------------
\* Properties of connect_to_one_of_destinations

\* the destinations the last call tried without connecting
Failed(tried, conn) == {tried[i] : i \in 1..Len(tried)} \ {conn}
\* the place of d in the list
Place(list, d) == CHOOSE i \in 1..Len(list) : list[i] = d
\* a step that is a call
IsCall == postponed' = postponed /\ <<destinations, probed, connected>>' #
                                    <<destinations, probed, connected>>

\* C19 as stated: a call leaves every destination whose connect failed
\* behind every other destination, at the tail of the list, and a next call
\* would not try first the destination this call tried first and failed on.
C19_FailedMovedToTail ==
    [][IsCall =>
         /\ \A d \in Failed(probed', connected') :
              \A e \in Destinations \ Failed(probed', connected') :
                  Place(destinations', e) < Place(destinations', d)
         /\ (/\ probed' # << >>
             /\ probed'[1] \in Failed(probed', connected')
             /\ Len(candidates(destinations', postponed')) > 1)
            => candidates(destinations', postponed')[1] # probed'[1]]_vars

\* C19: a call moves the destination it connected to to the tail of the
\* list and leaves the others in their order, those whose connect failed
\* included; a call that connected to none leaves the list as it was.
C19_ConnectedMovedToTail ==
    [][IsCall =>
         /\ connected' # 0 =>
              /\ destinations'[Len(destinations')] = connected'
              /\ remove_item(destinations', connected') =
                     remove_item(destinations, connected')
         /\ connected' = 0 => destinations' = destinations]_vars

C19_Witness ==
    /\ connected # 0
    /\ Len(probed) = 2
    /\ destinations[Len(destinations)] = connected
    /\ destinations[1] = probed[1]

\* ------------------------------------------------------------------------
\* Properties of the v2 framing

\* the buffer of the collection: being written, or as it was committed
Written == IF rsb.open THEN rsb.wb ELSE sent
\* how many records of the buffer have the verb
Count(buf, verb) == Cardinality({i \in 1..Len(buf) : buf[i][1] = verb})
\* how many second values the points have
DistinctTimes == Cardinality({points[i] : i \in 1..Len(points)})
\* how many runs of points with the same second there are
Runs == Cardinality({i \in 1..Len(points) :
                         i = 1 \/ points[i] # points[i - 1]})

\* C20 as stated: whatever the sequence of calls, the buffer of a commit has
\* one BEGIN_V2 for each distinct second of its points, and one SET_V2 for
\* each point.
C20_BeginOncePerTimestamp ==
    /\ Count(Written, "BEGIN_V2") = DistinctTimes
    /\ Count(Written, "SET_V2") = Len(points)

\* the runs that differ from the second before them, which for the first
\* run is the 0 of a fresh buffer
RunsBegun == Cardinality({i \in 1..Len(points) :
                              points[i] # (IF i = 1 THEN 0 ELSE points[i - 1])})

\* C20: the buffer of a commit has one BEGIN_V2 for each run of consecutive
\* points with the same second, but none for a first run in second 0; that
\* is one for each distinct second when no second recurs after a different
\* one and the first point is not in second 0; and it has one SET_V2 for
\* each point.
C20_BeginOncePerRun ==
    /\ Count(Written, "BEGIN_V2") = RunsBegun
    /\ (points # << >> /\ points[1] # 0) => RunsBegun = Runs
    /\ (Runs = DistinctTimes /\ RunsBegun = Runs)
       => Count(Written, "BEGIN_V2") = DistinctTimes
    /\ Count(Written, "SET_V2") = Len(points)
    /\ \A i \in 1..Len(Written) :
         Written[i][1] = "BEGIN_V2" =>
             /\ i < Len(Written)
             /\ Written[i + 1][1] = "SET_V2"

C20_Witness ==
    /\ ~rsb.open
    /\ Len(points) = 3
    /\ points[1] = points[2]
    /\ points[2] # points[3]
    /\ Count(sent, "BEGIN_V2") = 2
    /\ Count(sent, "SET_V2") = 3
    /\ Count(sent, "END_V2") = 2

\* how many BEGIN_V2 of the first n records of buf are not closed
Open(buf, n) ==
    Count(SubSeq(buf, 1, n), "BEGIN_V2") - Count(SubSeq(buf, 1, n), "END_V2")

\* C21: the committed buffer has as many BEGIN_V2 as END_V2, every END_V2
\* closes a BEGIN_V2 that was open, no BEGIN_V2 is written while another is
\* open, and none is open at the commit.
C21_GroupsBalanced ==
    ~rsb.open =>
        /\ Count(sent, "BEGIN_V2") = Count(sent, "END_V2")
        /\ \A n \in 1..Len(sent) :
             /\ sent[n][1] = "END_V2" => Open(sent, n - 1) = 1
             /\ sent[n][1] = "BEGIN_V2" => Open(sent, n - 1) = 0
        /\ Open(sent, Len(sent)) = 0

C21_Witness ==
    /\ ~rsb.open
    /\ Count(sent, "BEGIN_V2") = 2
    /\ Count(sent, "END_V2") = 2
    /\ sent[Len(sent)][1] = "END_V2"

\* ------------------------------------------------------------------------
\* Properties of rrdpush_sender_thread_stop

C23_DefinitionBeforeValuesOnReconnect ==
    \A i \in DOMAIN stream :
        (/\ stream[i][1] \in ValueVerbs
         /\ RRDSET_FLAG_UPSTREAM_SEND \in chartFlags[stream[i][2]])
        => \E j \in 1..(i - 1) : stream[j] = Rec("CHART", stream[i][2])

\* a tick that found the chart exposed is about to write values on a
\* connection on which the chart is not exposed
C23_Witness ==
    \E t \in Collectors :
        /\ pc[t] = "collecting"
        /\ RRDHOST_FLAG_RRDPUSH_SENDER_READY_4_METRICS \in hostFlags
        /\ ~rrdset_check_upstream_exposed(st[t])
        /\ stream = << >>

\* ------------------------------------------------------------------------
\* Properties of the commit mutex

\* thread t is between a sender_start and the sender_commit that matches it
InCommit(t) ==
    pc[t] \in {"def_in_progress", "def_finished", "def_plus_one", "def_commit",
               "collecting"}

\* the records thread t commits with the sender_commit it is heading for
Committing(t) ==
    IF pc[t] = "collecting" THEN ValueRecords(st[t]) ELSE wb[t]

\* C24: while a thread is between its sender_start and the matching
\* sender_commit, the outbound stream changes only by that thread's commit,
\* which appends the thread's records in one piece: no record of another
\* thread comes between them.
C24_CommitsContiguous ==
    [][\A t \in Threads :
          (InCommit(t) /\ stream' # stream)
          => /\ ~InCommit(t)'
             /\ stream' = stream \o Committing(t)]_vars

\* records are on the stream and a collector is about to ask for the mutex
\* while another thread is between its sender_start and its sender_commit
C24_Witness ==
    /\ \E t \in Collectors : pc[t] = "values_start"
    /\ \E t \in Others : InCommit(t)
    /\ stream # << >>

\* ------------------------------------------------------------------------
\* Properties of the stale receiver

\* the request of web thread w is at the duplicate detection and the host has
\* a stale receiver
FindsStale(w) ==
    /\ rpc[w] = "duplicate"
    /\ hostX = "live"
    /\ receiver # NoReceiver
    /\ now - receiver.last_msg_t >= 30

\* the request of web thread w, which called stop_streaming_receiver and saw
\* it succeed, returns
ReturnsAfterStop(w) ==
    /\ rpc[w] = "handoff"
    /\ stop_signalled[w]
    /\ rpc'[w] = "idle"

\* what C25 has in common with its amendment: a request that finds a stale
\* receiver on a host that is not archived goes on to stop it, and a stop
\* that fails leaves the receiver signalled and answers 409
StaleIsStopped(w) ==
    /\ (FindsStale(w) /\ rpc'[w] # rpc[w]) => rpc'[w] = "stop"
    /\ (rpc[w] = "stop" /\ rpc'[w] # "stop")
       => IF receiver' = NoReceiver
          THEN rpc'[w] = "handoff" /\ stop_signalled'[w]
          ELSE /\ receiver'.shutdown
               /\ rpc'[w] = "idle"
               /\ response'[w] = HTTP_RESP_CONFLICT

\* C25: a request that finds a stale receiver on a host that is not archived
\* signals it to stop; the request is accepted exactly when the stop
\* succeeds, and answered 409 otherwise.
C25_AcceptedIffStopped ==
    [][\A w \in WebThreads :
          /\ StaleIsStopped(w)
          /\ ReturnsAfterStop(w) => response'[w] = HTTP_RESP_OK
          /\ (rpc'[w] = "idle" /\ rpc[w] # "idle" /\ stop_signalled'[w]
              /\ response'[w] = HTTP_RESP_OK) => rpc[w] = "handoff"]_vars

\* C25, amended: as above, but a request whose stop succeeded goes on to the
\* hand-off, where it is accepted when the receiver thread is created and
\* answered 500 when it is not.
C25_StoppedThenHandOff ==
    [][\A w \in WebThreads :
          /\ StaleIsStopped(w)
          /\ ReturnsAfterStop(w)
             => response'[w] = IF thread_created'[w]
                               THEN HTTP_RESP_OK
                               ELSE HTTP_RESP_INTERNAL_SERVER_ERROR
          /\ (rpc'[w] = "idle" /\ rpc[w] # "idle" /\ stop_signalled'[w]
              /\ response'[w] = HTTP_RESP_OK) => rpc[w] = "handoff"]_vars

\* a request stopped a stale receiver and was accepted while another was
\* answered 409 after a stop that failed
C25_Witness ==
    \E w1, w2 \in WebThreads :
        /\ rpc[w1] = "idle" /\ stop_signalled[w1]
        /\ response[w1] = HTTP_RESP_OK /\ thread_created[w1]
        /\ rpc[w2] = "idle" /\ stop_signalled[w2]
        /\ response[w2] = HTTP_RESP_CONFLICT

\* ------------------------------------------------------------------------
\* Properties of the order of the pre-handshake duties

\* the place of a step of rrdpush_receiver_thread_spawn in the order of the
\* duties
Duty(label) ==
    CASE label = "arrived"   -> 1
      [] label = "limiter"   -> 2
      [] label = "duplicate" -> 3
      [] label = "stop"      -> 4
      [] label = "handoff"   -> 5
      [] OTHER               -> 0

\* the request of web thread w returns with this step
Returns(w) == rpc[w] # "idle" /\ rpc'[w] = "idle"

\* C26: a request goes through validation, rate limit, duplicate detection
\* and hand-off in this order; the step that answers 401 leaves the rate
\* limiter's timestamp as it was; a request answered 401 or 503 returns from
\* the validation or the rate limiter, before any step that reads or signals
\* the host's receiver, and has neither changed nor signalled the receiver.
C26_DutiesInOrder ==
    [][\A w \in WebThreads :
          /\ (rpc'[w] # rpc[w] /\ ~Returns(w) /\ rpc[w] # "idle")
             => Duty(rpc'[w]) > Duty(rpc[w])
          /\ (Returns(w) /\ response'[w] = HTTP_RESP_UNAUTHORIZED)
             => /\ rpc[w] = "arrived"
                /\ last_stream_accepted_t' = last_stream_accepted_t
          /\ (Returns(w) /\ response'[w] \in {HTTP_RESP_UNAUTHORIZED,
                                              HTTP_RESP_SERVICE_UNAVAILABLE})
             => /\ Duty(rpc[w]) < Duty("duplicate")
                /\ receiver' = receiver
                /\ ~stop_signalled'[w]]_vars

\* with a receiver attached and the rate limiter's timestamp set, one
\* request was answered 401 and another 503
C26_Witness ==
    \E w1, w2 \in WebThreads :
        /\ receiver # NoReceiver
        /\ last_stream_accepted_t > 0
        /\ rpc[w1] = "idle" /\ response[w1] = HTTP_RESP_UNAUTHORIZED
        /\ rpc[w2] = "idle" /\ response[w2] = HTTP_RESP_SERVICE_UNAVAILABLE
        /\ serviceRunning

\* ------------------------------------------------------------------------
\* Properties of the bounds of the negotiated mask

\* the capabilities this code can offer when nothing is disabled
LocallySupported ==
    {STREAM_CAP_V1, STREAM_CAP_V2, STREAM_CAP_VN, STREAM_CAP_VCAPS,
     STREAM_CAP_HLABELS, STREAM_CAP_CLAIM, STREAM_CAP_CLABELS,
     "FUNCTIONS", STREAM_CAP_REPLICATION, "BINARY", STREAM_CAP_INTERPOLATED,
     "SLOTS", "IEEE754", STREAM_CAP_DATA_WITH_ML}
    \cup STREAM_CAP_COMPRESSIONS_AVAILABLE

\* mask result lies within what value v stands for and what this code
\* supports, and has nothing of mask disabled
WithinBounds(result, v, disabled) ==
    /\ result \subseteq version_to_capabilities(v)
    /\ result \subseteq LocallySupported
    /\ result \cap disabled = {}

\* C27: the mask convert_stream_version_to_capabilities returns lies within
\* the bits the peer's value maps to and within the locally supported bits,
\* and has no bit of the globally disabled mask; converted for a sender, it
\* has no bit of the host sender's disabled mask either. Checked for the
\* parent's conversion of what was advertised, for the child's conversion
\* of the parent's reply, and for the conversion any sender host would make
\* of the advertised value.
C27_ResultWithinBounds ==
    /\ rpt_capabilities # STREAM_CAP_INVALID
       => WithinBounds(rpt_capabilities, advertised, parentDisabled)
    /\ handshake = "negotiated"
       => WithinBounds(capabilities, reply,
                       childHost.globally_disabled
                           \cup childHost.disabled_capabilities)
    /\ \A h \in ChildHosts :
          WithinBounds(
              convert_stream_version_to_capabilities(
                  advertised, h.globally_disabled, h, TRUE),
              advertised,
              h.globally_disabled \cup h.disabled_capabilities)

\* the parent converted a value that has a bit it has disabled and a bit it
\* does not know
C27_Witness ==
    /\ handshake = "converted"
    /\ STREAM_CAP_INTERPOLATED \in parentDisabled
    /\ {STREAM_CAP_INTERPOLATED, "BIT25"} \subseteq
           version_to_capabilities(advertised)
    /\ STREAM_CAP_VCAPS \in rpt_capabilities

\* ------------------------------------------------------------------------
\* Properties of the scan of the destinations

\* the step is a call of connect_to_one_of_destinations
Called ==
    /\ UNCHANGED <<realtime, postpone_reconnection_until>>
    /\ <<since, attempts, probed, connected, accepting>>' #
           <<since, attempts, probed, connected, accepting>>

\* the members of a list
Members(list) == {list[k] : k \in 1..Len(list)}

\* the destinations whose postpone_reconnection_until is not later than now,
\* in the order of the list
NotPostponed ==
    SelectSeq(destinations,
              LAMBDA d : postpone_reconnection_until[d] <= realtime)

C29_PermutationWithChosenLast ==
    /\ [](/\ Len(destinations) = MaxDestinations
          /\ Members(destinations) = Destinations)
    /\ [][(Called /\ connected' # 0)
          => /\ chosen' = connected'
             /\ destinations' =
                    SelectSeq(destinations, LAMBDA x : x # connected')
                        \o <<connected'>>]_vars

\* a destination was connected to twice and the head of the list is no longer
\* the first destination
C29_Witness ==
    /\ connected # 0
    /\ chosen = connected
    /\ attempts[connected] = 2
    /\ destinations[Len(destinations)] = connected
    /\ destinations[1] # 1

\* the step writes the postponement of more than one destination
ResetCalled ==
    Cardinality({d \in Destinations :
                    postpone_reconnection_until'[d] #
                        postpone_reconnection_until[d]}) > 1

Rank(verb) ==
    CASE verb = "CHART"                -> 1
      [] verb = "DIMENSION"            -> 2
      [] verb = "CLABEL"               -> 3
      [] verb = "CLABEL_COMMIT"        -> 4
      [] verb = "FUNCTION"             -> 5
      [] verb = "VARIABLE"             -> 6
      [] verb = "CHART_DEFINITION_END" -> 7

\* CHART_DEFINITION_END is written exactly when REPLICATION was negotiated,
\* once, as the last record
EndIffReplication ==
    definition # << >> =>
        /\ \A i \in 1..(Len(definition) - 1) :
              definition[i] # "CHART_DEFINITION_END"
        /\ definition[Len(definition)] = "CHART_DEFINITION_END"
           <=> STREAM_CAP_REPLICATION \in negotiated

\* C31: the records of a definition come in the order CHART, DIMENSION,
\* CLABEL with CLABEL_COMMIT, functions, variables, CHART_DEFINITION_END;
\* CHART_DEFINITION_END is written exactly when REPLICATION was negotiated
\* and is the last record.
C31_DefinitionOrder ==
    /\ \A i, j \in DOMAIN definition :
          i < j => Rank(definition[i]) <= Rank(definition[j])
    /\ EndIffReplication

\* a definition with labels and dimensions was written
C31_Witness ==
    /\ definition # << >>
    /\ \E i, j \in DOMAIN definition :
          definition[i] = "CLABEL_COMMIT" /\ definition[j] = "DIMENSION"
    /\ definition[Len(definition)] = "CHART_DEFINITION_END"

\* ------------------------------------------------------------------------
\* Properties of the exposed marker

\* the CHART record of chart c is in the sender buffer
ChartCommitted(c) == \E i \in DOMAIN stream : stream[i] = Rec("CHART", c)

InProgress ==
    {c \in Charts : RRDSET_FLAG_SENDER_REPLICATION_IN_PROGRESS \in chartFlags[c]}

\* the threads that have set the flag of a chart at line 322 and have not
\* yet counted it at line 324
Uncounted == {t \in Threads : pc[t] \in {"def_finished", "def_plus_one"}}

\* C33: the count of charts replicating goes up once for each change of a
\* chart to SENDER_REPLICATION_IN_PROGRESS and not when the definition of a
\* chart in progress is sent again, whichever threads send it; the count is
\* never above the number of charts in progress.
C33_CountedOncePerTransition ==
    /\ [](replicatingCharts <= Cardinality(InProgress))
    /\ [](replicatingCharts + Cardinality(Uncounted) = Cardinality(InProgress))
    /\ [][replicatingCharts' > replicatingCharts
          => /\ replicatingCharts' = replicatingCharts + 1
             /\ \E t \in Uncounted : pc'[t] = "def_commit"]_vars
    /\ [][\A t \in Threads :
            (pc[t] = "def_in_progress" /\ pc'[t] # pc[t]
             /\ st[t] \in InProgress)
            => pc'[t] = "def_commit" /\ UNCHANGED replicatingCharts]_vars

\* the definition of a chart in progress is sent again, the count at one
C33_Witness ==
    \E t \in Threads :
        /\ pc[t] = "def_commit"
        /\ st[t] \in InProgress
        /\ replicatingCharts = 1
        /\ \E i \in DOMAIN stream :
              stream[i] = Rec("CHART_DEFINITION_END", st[t])

\* ------------------------------------------------------------------------
\* Properties of the place of SET_V2

\* C36: every SET_V2 of the buffer lies in a group that a BEGIN_V2 has
\* opened and no END_V2 has closed yet, whatever the seconds of the points,
\* the second 0 included.
C36_SetInsideGroup ==
    \A n \in 1..Len(Written) :
        Written[n][1] = "SET_V2" => Open(Written, n - 1) = 1

\* the first point of a buffer ends in second 0
C36_Witness ==
    /\ rsb.open
    /\ rsb.v2
    /\ Len(points) = 1
    /\ points[1] = 0
    /\ Count(rsb.wb, "SET_V2") = 1

\* ------------------------------------------------------------------------
\* Properties of the "#" fields

\* the wall-clock field of BEGIN_V2 is "#" exactly when the point ends in
\* the second of the wall clock, and the text of the wall clock otherwise
WallClockField ==
    fields # << >> =>
        /\ fields[1] = Hash <=> point.point_end_time_s = point.wall_clock_time
        /\ fields[1] # Hash => fields[1] = encoded(point.wall_clock_time)

\* the number n is the integer i
IsInteger(n, i) == ~n.half /\ n.whole = i

\* C34 as stated: the wall-clock field is "#" exactly when the point ends in
\* the second of the wall clock; the value field of SET_V2 is "#" exactly
\* when the value is the last collected integer, and the text of the value
\* otherwise.
C34_HashIffEqual ==
    /\ WallClockField
    /\ fields # << >> =>
        /\ fields[2] = Hash <=> IsInteger(point.n, point.last_collected_value)
        /\ fields[2] # Hash => fields[2] = encoded(point.n)

\* C34: the wall-clock field is "#" exactly when the point ends in the
\* second of the wall clock; the value field of SET_V2 is "#" exactly when
\* the value is the last collected integer converted to NETDATA_DOUBLE,
\* and the text of the value otherwise.
C34_HashIffEqualAsDouble ==
    /\ WallClockField
    /\ fields # << >> =>
        /\ fields[2] = Hash <=>
               point.n = to_double(point.last_collected_value)
        /\ fields[2] # Hash => fields[2] = encoded(point.n)

\* a value field "#" was written for a collected integer that no
\* NETDATA_DOUBLE holds, and a wall-clock field "#"
C34_Witness ==
    /\ fields = <<Hash, Hash>>
    /\ ~IsInteger(point.n, point.last_collected_value)

\* ------------------------------------------------------------------------
\* Properties of the tick of a host that is not ready

\* the tick changes nothing of the charts and nothing of the sender buffer
TickIsNoOp ==
    UNCHANGED <<chartFlags, version, sentVersion, replicatingCharts, stream,
                commits, senderMutex, wb>>

Denied(w) ==
    /\ rpc[w] = "idle"
    /\ req[w] # NoRequest
    /\ serviceRunning
    /\ rrdpush_receiver_validate(req[w]) # "ok"

\* C37: every request that a check of the validation refuses is answered
\* with the same code and the same body, whichever check it was.
C37_SameRefusal ==
    \A w \in WebThreads :
        Denied(w) => /\ response[w] = HTTP_RESP_UNAUTHORIZED
                     /\ response_data[w] = START_STREAMING_ERROR_NOT_PERMITTED

\* a request that failed the last check of the validation, the pattern of
\* the machine's section, was refused as one without a key is
C37_Witness ==
    \E w \in WebThreads :
        /\ Denied(w)
        /\ rrdpush_receiver_validate(req[w])
               = "machine guid not permitted from this ip"
        /\ response[w] = HTTP_RESP_UNAUTHORIZED
        /\ response_data[w] = START_STREAMING_ERROR_NOT_PERMITTED

\* ------------------------------------------------------------------------
\* Properties of a chart whose receiver has not finished the replication

\* the chart c is undecided and nothing of it is in the stream
Unsent(c) ==
    /\ chartFlags[c] \cap {RRDSET_FLAG_UPSTREAM_SEND,
                           RRDSET_FLAG_UPSTREAM_IGNORE} = {}
    /\ \A i \in DOMAIN stream : stream[i][2] # c
    /\ \A t \in Threads : \A i \in DOMAIN wb[t] : wb[t][i][2] # c
    /\ sentVersion[c] = -1

\* C38: a chart without receiver_replication_finished is undecided and
\* nothing of it was sent; a call of should_send_chart_matching that finds
\* the flag unset changes no flag of the chart and the caller returns
\* without a definition or a value record.
C38_UnreplicatedNeverSent ==
    /\ [](\A c \in Charts :
             RRDSET_FLAG_RECEIVER_REPLICATION_FINISHED \notin chartFlags[c]
             => Unsent(c))
    /\ [][\A t \in Threads :
            (/\ pc[t] \in {"classify", "now_classify"}
             /\ pc'[t] # pc[t]
             /\ RRDSET_FLAG_RECEIVER_REPLICATION_FINISHED \notin rrdset_flags[t])
            => /\ pc'[t] = "idle"
               /\ UNCHANGED <<chartFlags, stream, commits, senderMutex, wb,
                              sentVersion>>]_vars

\* a tick is about to classify a chart that it found without the flag,
\* while another chart of the host has been sent
C38_Witness ==
    \E t \in Threads :
        /\ pc[t] = "classify"
        /\ RRDSET_FLAG_RECEIVER_REPLICATION_FINISHED \notin chartFlags[st[t]]
        /\ RRDSET_FLAG_RECEIVER_REPLICATION_FINISHED \notin rrdset_flags[t]
        /\ stream # << >>

\* ------------------------------------------------------------------------
\* Properties of the signals

\* C39: every signal that signal_handler recorded is acted on by
\* signals_handle and its count is reset to 0 (or the process ends), with no
\* further signal arriving, whenever it was delivered.
C39_RecordedEventuallyHandled ==
    \A i \in Caught :
        (count[i] > 0) ~> (count[i] = 0 \/ handle_pc = "exited")

\* signals_handle sleeps in pause() after a scan that reopened the logs,
\* with a SIGUSR1 recorded that the scan did not find
C39_RecordedWhilePaused ==
    /\ handle_pc = "pause"
    /\ last_action = "NETDATA_SIGNAL_REOPEN_LOGS"
    /\ count[6] = 1

\* ------------------------------------------------------------------------
\* Properties of the cleanup of mount points

\* the mount point m was collected and is not mounted
Gone(m) ==
    /\ cleanup_mount_points # 0
    /\ m \notin mounted
    /\ dict_mountpoints[m].collected # 0

\* the charts of m are obsolete and its pointers cleared, or m is back
CleanedOrBack(m) ==
    \/ m \in mounted
    \/ /\ dict_mountpoints[m].st_space = "NULL"
       /\ m \in obsolete

\* C40: with "remove charts of unmounted disks" enabled, a mount point that
\* was collected and is no longer mounted has its charts marked obsolete and
\* its pointers cleared by a cleanup pass in the end, whether the main loop
\* or the slow worker collects it.
C40_UnmountedEventuallyCleaned ==
    \A m \in MountPoints : Gone(m) ~> CleanedOrBack(m)

\* the part that holds: a mount point that the main loop collects is
\* cleaned up in the end
C40_MainLoopCleans ==
    \A m \in MountPoints :
        (Gone(m) /\ dict_mountpoints[m].slow = 0) ~> CleanedOrBack(m)

\* a slow mount point is gone, is in no list of the worker, and its charts
\* are there
C40_SlowLeftBehind ==
    \E m \in MountPoints :
        /\ Gone(m)
        /\ dict_mountpoints[m].slow = 1
        /\ m \notin slow_mountinfo_root \cup slow_mountinfo_tmp_root
        /\ dict_mountpoints[m].st_space # "NULL"
        /\ main_pc = "stats" /\ slow_pc = "swap"

=============================================================================
